---------------------------- MODULE Spec2Model ----------------------------
(***************************************************************************)
(* The theme-insight pipeline of backend/generate_theme_insight2.py:       *)
(* per-comment summaries, embedding, adaptive sub-topic clustering and the *)
(* synthesis of one insight record per theme, written to a JSON table.     *)
(*                                                                         *)
(* Texts are sequences of one-character strings, so that truncation,       *)
(* stripping, line splitting and tokenisation are computed as the code     *)
(* computes them.                                                          *)
(***************************************************************************)
EXTENDS Integers, Sequences, FiniteSets, TLC

VARIABLES
    api_key,            \* Config.OPENAI_API_KEY is set
    KMeans,             \* TRUE: sklearn imported; FALSE: KMeans = None
    pc,                 \* position of main()
    themes_to_process,  \* list of <<theme_type, theme_name>>
    idx,                \* 1-based position in themes_to_process
    pos_contents,       \* positive comments of the current theme
    neg_contents,       \* negative comments of the current theme
    side,               \* sentiment_label being processed
    comments_to_use,    \* the sampled comments of the current batch
    cix,                \* next comment of comments_to_use to summarise
    summaries,          \* claims produced so far for the current batch
    embeddings,         \* vectors returned for the claims
    clusters,           \* result of cluster_summaries
    insights,           \* the record being built for the current theme
    all_insights,       \* key -> record, built during the run
    files,              \* the JSON files under data/: name -> text or None
    calls,              \* capability calls issued for the current theme
    n_queries,          \* store queries issued in this run
    n_writes,           \* writes of the output file in this run
    outcomes,           \* how each theme of the loop ended, in loop order
    invocation,         \* a function called on its own: name, arguments, result
    _theme_insights_cache, \* the table the server has loaded, or None
    stub                \* the fixed answers of the services, when they are held fixed

vars == << api_key, KMeans, pc, themes_to_process, idx, pos_contents,
           neg_contents, side, comments_to_use, cix, summaries, embeddings,
           clusters, insights, all_insights, files, calls, n_queries,
           n_writes, outcomes, invocation, _theme_insights_cache,
           stub >>

---------------------------------------------------------------------------
(* Bounds of the model. *)

\* rows a theme query returns
MaxRows == 2
\* claims handed to cluster_summaries when it is called on its own
MaxUnitClaims == 12
\* items and cap handed to _evenly_sample when it is called on its own
MaxItems == 13

(* Program constants. *)

MAX_COMMENTS_PER_THEME == 600
MAX_SUMMARIES_PER_THEME == 300
MIN_CLUSTER_SUMMARIES == 12
MIN_POINTS_PER_CLUSTER == 18
MAX_CLUSTERS == 5
\* text[:150] of the fallback claim
FALLBACK_CHARS == 150
\* text[:1000] of the summary prompt
PROMPT_CHARS == 1000
\* text[:300] of the raw-text insight fallback
RAW_SUMMARY_CHARS == 300
\* recs[:3]
MAX_RECOMMENDATIONS == 3
\* summaries[:5]
EXAMPLES_PER_CLUSTER == 5
\* examples[:3] in the prompt block
EXAMPLES_PER_BLOCK == 3
\* keywords_from_texts(..., top_k=8)
TOP_K == 8
\* [a-zA-Z]{3,}
MIN_TOKEN_LEN == 3

---------------------------------------------------------------------------
(* Python built-ins on texts and lists. *)

Min(a, b) == IF a <= b THEN a ELSE b
Max(a, b) == IF a >= b THEN a ELSE b

\* s[:n]
Take(s, n) == SubSeq(s, 1, Min(Max(n, 0), Len(s)))

\* s[n:] (0-based n)
Drop(s, n) == SubSeq(s, Min(Max(n, 0), Len(s)) + 1, Len(s))

Whitespace == {" ", "\n", "\t"}

\* the list s with its items computed
List(s) == s \o <<>>

\* the k-th smallest element of a set of numbers (k from 1)
Nth(S, k) == CHOOSE x \in S : Cardinality({y \in S : y < x}) = k - 1

AscendingBy(S, below) ==
    List([k \in 1..Cardinality(S) |-> CHOOSE x \in S : below[x] = k - 1])

\* the numbers of the set S in increasing order
Ascending(S) ==
    AscendingBy(S, [x \in S |-> Cardinality({y \in S : y < x})] @@ <<>>)

ItemsAt(s, order) == List([k \in 1..Len(order) |-> s[order[k]]])

\* [s[i] for i in range(len(s)) if i in at] (positions from 1)
Select(s, at) == ItemsAt(s, Ascending(at))

\* str.strip(): without the leading and the trailing run of whitespace
strip(s) ==
    LET n     == Len(s)
        lead  == Cardinality({i \in 1..n : \A j \in 1..i : s[j] \in Whitespace})
        trail == Cardinality({i \in 1..n :
                                \A j \in 0..(n - i) : s[n - j] \in Whitespace})
    IN  IF lead = n THEN <<>> ELSE SubSeq(s, lead + 1, n - trail)

\* str.startswith(prefix)
startswith(s, prefix) ==
    Len(s) >= Len(prefix) /\ SubSeq(s, 1, Len(prefix)) = prefix

LinesBetween(s, breaks) ==
    List([k \in 1..(Len(breaks)
                    + (IF s # <<>> /\ s[Len(s)] # "\n" THEN 1 ELSE 0)) |->
            SubSeq(s, IF k = 1 THEN 1 ELSE breaks[k - 1] + 1,
                      IF k <= Len(breaks) THEN breaks[k] - 1 ELSE Len(s))])

\* str.splitlines(): the pieces between line breaks; no empty last piece
splitlines(s) ==
    LinesBetween(s, Ascending({i \in 1..Len(s) : s[i] = "\n"}))

UpperCase == <<"A", "B", "C", "D", "E", "F", "G", "H", "I", "J", "K", "L", "M",
               "N", "O", "P", "Q", "R", "S", "T", "U", "V", "W", "X", "Y", "Z">>
LowerCase == <<"a", "b", "c", "d", "e", "f", "g", "h", "i", "j", "k", "l", "m",
               "n", "o", "p", "q", "r", "s", "t", "u", "v", "w", "x", "y", "z">>

Letters == {UpperCase[i] : i \in 1..26} \cup {LowerCase[i] : i \in 1..26}

IsAlpha(c) == c \in Letters

LowerChar(c) ==
    IF \E i \in 1..26 : c = UpperCase[i]
    THEN LowerCase[CHOOSE i \in 1..26 : c = UpperCase[i]]
    ELSE c

\* str.lower()
lower(s) == List([i \in 1..Len(s) |-> LowerChar(s[i])])

Digits == <<"0", "1", "2", "3", "4", "5", "6", "7", "8", "9">>

RECURSIVE str(_)
\* str(n) for an int n >= 0
str(n) == IF n < 10 THEN <<Digits[n + 1]>>
          ELSE str(n \div 10) \o <<Digits[(n % 10) + 1]>>

RECURSIVE join(_, _)
\* sep.join(parts)
join(sep, parts) ==
    IF parts = <<>> THEN <<>>
    ELSE IF Len(parts) = 1 THEN parts[1]
    ELSE parts[1] \o sep \o join(sep, Tail(parts))

\* [x for x in s if x in keep]
Filter(s, keep) == Select(s, {i \in 1..Len(s) : s[i] \in keep})

RECURSIVE Flatten(_)
Flatten(ss) == IF ss = <<>> THEN <<>> ELSE Head(ss) \o Flatten(Tail(ss))

Range(s) == {s[i] : i \in 1..Len(s)}

RECURSIVE SumSeq(_)
SumSeq(s) == IF s = <<>> THEN 0 ELSE Head(s) + SumSeq(Tail(s))

\* the place of each item when the list is sorted by keys, larger keys
\* first, equal keys in their order
SortRanks(keys) ==
    List([i \in 1..Len(keys) |->
            1 + Cardinality({j \in 1..Len(keys) :
                    keys[j] > keys[i] \/ (keys[j] = keys[i] /\ j < i)})])

ItemsByRank(items, ranks) ==
    List([r \in 1..Len(items) |->
            items[CHOOSE i \in 1..Len(items) : ranks[i] = r]])

\* sorted(items, key=lambda x: keys[x's position], reverse=True): stable,
\* larger keys first
SortDesc(items, keys) == ItemsByRank(items, SortRanks(keys))

---------------------------------------------------------------------------
(* Stop words and tokenisation. *)

BASE_STOP_WORDS ==
    { <<"a", "b", "o", "u", "t">>,
      <<"a", "c", "r", "o", "s", "s">>,
      <<"a", "l", "l">>,
      <<"a", "l", "s", "o">>,
      <<"a", "n", "d">>,
      <<"a", "n", "o", "t", "h", "e", "r">>,
      <<"a", "n", "y">>,
      <<"a", "r", "e">>,
      <<"b", "e", "c", "a", "u", "s", "e">>,
      <<"b", "e", "e", "n">>,
      <<"b", "u", "t">>,
      <<"c", "a", "n">>,
      <<"c", "o", "u", "l", "d">>,
      <<"d", "i", "d">>,
      <<"d", "o", "e", "s">>,
      <<"d", "o", "i", "n", "g">>,
      <<"d", "o", "n", "e">>,
      <<"e", "a", "c", "h">>,
      <<"e", "v", "e", "n">>,
      <<"e", "v", "e", "r", "y">>,
      <<"f", "e", "w">>,
      <<"f", "o", "r">>,
      <<"f", "r", "o", "m">>,
      <<"g", "e", "t">>,
      <<"g", "o", "t">>,
      <<"h", "a", "d">>,
      <<"h", "a", "s">>,
      <<"h", "a", "v", "e">>,
      <<"h", "o", "w">>,
      <<"i", "n", "t", "o">>,
      <<"j", "u", "s", "t">>,
      <<"l", "i", "k", "e">>,
      <<"m", "a", "d", "e">>,
      <<"m", "a", "k", "e">>,
      <<"m", "a", "n", "y">>,
      <<"m", "o", "r", "e">>,
      <<"m", "o", "s", "t">>,
      <<"m", "u", "c", "h">>,
      <<"n", "e", "w">>,
      <<"n", "o", "t">>,
      <<"o", "l", "d">>,
      <<"o", "n", "e">>,
      <<"o", "t", "h", "e", "r">>,
      <<"o", "u", "r">>,
      <<"o", "u", "t">>,
      <<"o", "v", "e", "r">>,
      <<"p", "e", "r">>,
      <<"s", "h", "o", "u", "l", "d">>,
      <<"s", "o", "m", "e">>,
      <<"s", "t", "i", "l", "l">>,
      <<"s", "u", "c", "h">>,
      <<"t", "h", "a", "n">>,
      <<"t", "h", "a", "t">>,
      <<"t", "h", "e">>,
      <<"t", "h", "e", "i", "r">>,
      <<"t", "h", "e", "m">>,
      <<"t", "h", "e", "y">>,
      <<"t", "h", "i", "s">>,
      <<"t", "h", "r", "e", "e">>,
      <<"t", "w", "o">>,
      <<"v", "e", "r", "y">>,
      <<"w", "a", "s">>,
      <<"w", "e", "l", "l">>,
      <<"w", "e", "r", "e">>,
      <<"w", "h", "a", "t">>,
      <<"w", "h", "e", "n">>,
      <<"w", "h", "e", "r", "e">>,
      <<"w", "h", "i", "l", "e">>,
      <<"w", "h", "o">>,
      <<"w", "h", "y">>,
      <<"w", "i", "l", "l">>,
      <<"w", "i", "t", "h">>,
      <<"w", "o", "u", "l", "d">>,
      <<"y", "o", "u">>,
      <<"y", "o", "u", "r">> }

CUSTOM_STOP_WORDS ==
    { <<"a", "d", "v", "i", "c", "e">>,
      <<"b", "u", "s", "i", "n", "e", "s", "s">>,
      <<"c", "o", "m", "p", "a", "n", "y">>,
      <<"c", "o", "n", "s">>,
      <<"d", "a", "y">>,
      <<"d", "a", "y", "s">>,
      <<"e", "m", "p", "l", "o", "y", "e", "e">>,
      <<"e", "m", "p", "l", "o", "y", "e", "e", "s">>,
      <<"i", "n", "d", "u", "s", "t", "r", "y">>,
      <<"j", "o", "b">>,
      <<"j", "o", "b", "s">>,
      <<"m", "a", "n", "a", "g", "e", "m", "e", "n", "t">>,
      <<"m", "a", "n", "a", "g", "e", "r">>,
      <<"m", "i", "n", "e">>,
      <<"m", "i", "n", "e", "s">>,
      <<"m", "i", "n", "i", "n", "g">>,
      <<"m", "o", "n", "t", "h">>,
      <<"m", "o", "n", "t", "h", "s">>,
      <<"p", "e", "o", "p", "l", "e">>,
      <<"p", "e", "r", "s", "o", "n">>,
      <<"p", "l", "a", "c", "e">>,
      <<"p", "r", "o", "s">>,
      <<"r", "e", "v", "i", "e", "w">>,
      <<"r", "e", "v", "i", "e", "w", "s">>,
      <<"r", "i", "o">>,
      <<"r", "i", "o", "t", "i", "n", "t", "o">>,
      <<"r", "o", "l", "e">>,
      <<"r", "t">>,
      <<"s", "i", "t", "e">>,
      <<"s", "i", "t", "e", "s">>,
      <<"s", "t", "a", "f", "f">>,
      <<"s", "u", "m", "m", "a", "r", "y">>,
      <<"t", "e", "a", "m">>,
      <<"t", "e", "a", "m", "s">>,
      <<"t", "i", "m", "e">>,
      <<"t", "i", "m", "e", "s">>,
      <<"t", "i", "n", "t", "o">>,
      <<"w", "o", "r", "k">>,
      <<"w", "o", "r", "k", "e", "d">>,
      <<"w", "o", "r", "k", "i", "n", "g">>,
      <<"y", "e", "a", "r">>,
      <<"y", "e", "a", "r", "s">> }

STOP_WORDS == BASE_STOP_WORDS \cup CUSTOM_STOP_WORDS

letter_at(s, i) == i >= 1 /\ i <= Len(s) /\ IsAlpha(s[i])

\* the last letter of the run of letters that starts at i
run_stop(s, i) ==
    CHOOSE e \in i..Len(s) :
        /\ ~letter_at(s, e + 1)
        /\ \A j \in i..e : letter_at(s, j)

TokensFrom(s, starts) ==
    List([k \in 1..Len(starts) |->
            SubSeq(s, starts[k], run_stop(s, starts[k]))])

\* TOKEN_PATTERN.findall(s): the maximal runs of letters, of 3 letters or more
TOKEN_PATTERN_findall(s) ==
    TokensFrom(s, Ascending({i \in 1..Len(s) :
                                /\ letter_at(s, i)
                                /\ ~letter_at(s, i - 1)
                                /\ run_stop(s, i) - i + 1 >= MIN_TOKEN_LEN}))

\* the keys of Counter(tokens), in first-encountered order
Distinct(s) ==
    Select(s, {i \in 1..Len(s) : \A j \in 1..(i - 1) : s[j] # s[i]})

Count(s, x) == Cardinality({i \in 1..Len(s) : s[i] = x})

CountsOf(tokens, words) ==
    List([i \in 1..Len(words) |-> Count(tokens, words[i])])

MostCommonOf(tokens, words, top_k) ==
    Take(SortDesc(words, CountsOf(tokens, words)), top_k)

\* Counter(tokens).most_common(top_k)
most_common(tokens, top_k) == MostCommonOf(tokens, Distinct(tokens), top_k)

\* a faulty variant: stop words are kept
without_stop_words_kept(found) == found

\* [t for t in TOKEN_PATTERN.findall(...) if t not in STOP_WORDS]
without_stop_words(found) == Filter(found, Range(found) \ STOP_WORDS)

keywords_from_texts(texts, top_k) ==
    most_common(
        Flatten(List([i \in 1..Len(texts) |->
                        without_stop_words(TOKEN_PATTERN_findall(lower(texts[i])))])),
        top_k)

---------------------------------------------------------------------------
(* The float cursor of _evenly_sample.  The doubles the loop computes are   *)
(* 0.0 and values from 1.0 up (step = len/max_samples > 1 inside the loop), *)
(* and every double x >= 1.0 is a whole multiple of 2^-52.  A double is     *)
(* <<w, f1, f2>>, its value w + f1 * 2^-26 + f2 * 2^-52 with                *)
(* 0 <= f1, f2 < 2^26.  Division and addition round to 53 significant bits, *)
(* to nearest, ties to even, as IEEE 754 binary64 does.                     *)

\* 2^26
LIMB == 2^26
\* 2^13
HALF_LIMB == 2^13

RECURSIVE Pow2(_)
Pow2(k) == IF k = 0 THEN 1 ELSE 2 * Pow2(k - 1)

\* floor(log2(w)) for 1 <= w < 2^26
Log2Floor(w) == CHOOSE k \in 0..25 : Pow2(k) <= w /\ w < 2 * Pow2(k)

FLOAT_ZERO == <<0, 0, 0>>

\* the exact value w + f1 * 2^-26 + f2 * 2^-52 (+ 2^-53 if tail_half, + less
\* than 2^-53 more if tail_rest), rounded to a double
RoundToDouble(w, f1, f2, tail_half, tail_rest) ==
    IF w = 0 THEN <<w, f1, f2>>
    ELSE LET k      == Log2Floor(w)
             grid   == Pow2(k)
             low    == f2 % grid
             half   == IF k = 0 THEN tail_half ELSE low >= grid \div 2
             rest   == IF k = 0 THEN tail_rest
                       ELSE (low % (grid \div 2) # 0) \/ tail_half \/ tail_rest
             odd    == (f2 \div grid) % 2 = 1
             up     == half /\ (rest \/ odd)
             g2     == (f2 - low) + (IF up THEN grid ELSE 0)
             g1     == f1 + g2 \div LIMB
         IN  << w + g1 \div LIMB, g1 % LIMB, g2 % LIMB >>

\* n / d as Python computes it for ints n >= d >= 1
float_div(n, d) ==
    LET r0 == n % d
        c1 == (r0 * HALF_LIMB) \div d
        r1 == (r0 * HALF_LIMB) % d
        c2 == (r1 * HALF_LIMB) \div d
        r2 == (r1 * HALF_LIMB) % d
        c3 == (r2 * HALF_LIMB) \div d
        r3 == (r2 * HALF_LIMB) % d
        c4 == (r3 * HALF_LIMB) \div d
        r4 == (r3 * HALF_LIMB) % d
    IN  RoundToDouble(n \div d, c1 * HALF_LIMB + c2, c3 * HALF_LIMB + c4,
                      2 * r4 >= d, (2 * r4) % d # 0)

\* a + b
float_add(a, b) ==
    LET s2 == a[3] + b[3]
        s1 == a[2] + b[2] + s2 \div LIMB
    IN  RoundToDouble(a[1] + b[1] + s1 \div LIMB, s1 % LIMB, s2 % LIMB,
                      FALSE, FALSE)

\* a faulty variant: round(x), halves upwards
float_int_rounded(x) == IF 2 * x[2] >= LIMB THEN x[1] + 1 ELSE x[1]

\* int(x)
float_int(x) == x[1]

---------------------------------------------------------------------------
(* The sampler. *)

RECURSIVE skip_used(_, _, _)
\* while pos in used and pos < len(items) - 1: pos += 1
skip_used(pos, used, n) ==
    IF pos \in used /\ pos < n - 1 THEN skip_used(pos + 1, used, n) ELSE pos

RECURSIVE sample_loop(_, _, _)
\* <<idx, used, positions appended>> after `done` iterations of the loop of
\* _evenly_sample over n items
sample_loop(n, step, done) ==
    IF done = 0 THEN << FLOAT_ZERO, {}, <<>> >>
    ELSE LET before == sample_loop(n, step, done - 1)
         IN  \* (the test holds always: it has `before` computed first)
             IF Len(before[3]) = done - 1
             THEN LET pos == skip_used(float_int(before[1]), before[2], n)
                  IN  << float_add(before[1], step), before[2] \cup {pos},
                         Append(before[3], pos) >>
             ELSE before

\* the 0-based indices _evenly_sample(items, max_samples) selects
sample_indices(n, max_samples) ==
    IF n <= max_samples THEN [i \in 1..n |-> i - 1]
    ELSE sample_loop(n, float_div(n, max_samples), Max(max_samples, 0))[3]

_evenly_sample(items, max_samples) ==
    LET at == sample_indices(Len(items), max_samples)
    IN  [i \in 1..Len(at) |-> items[at[i] + 1]]

---------------------------------------------------------------------------
(* Step 2: clustering. *)

\* The label vectors considered for n vectors: all of them up to
\* MaxUnitClaims vectors; beyond that the ones made of two runs, one label up
\* to a cut and one label after it (one label for all is among them).
labelings(n, k) ==
    IF n <= MaxUnitClaims THEN [1..n -> 0..(k - 1)]
    ELSE { [i \in 1..n |-> IF i <= cut THEN a ELSE b] :
              cut \in 0..n, a \in 0..(k - 1), b \in 0..(k - 1) }

\* The outcomes of KMeans(n_clusters=k, ...).fit_predict(embeddings): an
\* exception, or one label in 0..k-1 per vector.  Fewer vectors than
\* clusters is always an exception.
fit_predict(k, vectors) ==
    {<<"raise">>} \cup
    (IF Len(vectors) < k THEN {}
     ELSE {<<"labels", l>> : l \in labelings(Len(vectors), k)})

\* a faulty variant: k is not clamped
choose_k_unclamped(n) == n \div MIN_POINTS_PER_CLUSTER

\* k = max(2, min(MAX_CLUSTERS, n // MIN_POINTS_PER_CLUSTER)), then the two
\* adjustments
choose_k(n) ==
    LET k0 == Max(2, Min(MAX_CLUSTERS, n \div MIN_POINTS_PER_CLUSTER))
        k1 == IF k0 <= 1 THEN 2 ELSE k0
    IN  IF k1 > n THEN n ELSE k1

\* a faulty variant: the threshold one claim too low
reaches_kmeans_below_threshold(texts, kmeans) ==
    /\ Len(texts) # 0
    /\ ~((~kmeans) \/ (Len(texts) < MIN_CLUSTER_SUMMARIES - 1))

\* whether cluster_summaries reaches the KMeans call
reaches_kmeans(texts, kmeans) ==
    /\ Len(texts) # 0
    /\ ~((~kmeans) \/ (Len(texts) < MIN_CLUSTER_SUMMARIES))

\* a faulty variant: the size is the number of examples kept
cluster_record_sized_by_examples(cid, items) ==
    [ cluster_id        |-> cid,
      size              |-> Len(Take(items, EXAMPLES_PER_CLUSTER)),
      summaries         |-> items,
      example_summaries |-> Take(items, EXAMPLES_PER_CLUSTER),
      keywords          |-> keywords_from_texts(items, TOP_K) ]

cluster_record(cid, items) ==
    [ cluster_id        |-> cid,
      size              |-> Len(items),
      summaries         |-> items,
      example_summaries |-> Take(items, EXAMPLES_PER_CLUSTER),
      keywords          |-> keywords_from_texts(items, TOP_K) ]

\* a faulty variant: the claims in reverse order
single_cluster_reversed(texts) ==
    << cluster_record(0, [i \in 1..Len(texts) |-> texts[Len(texts) + 1 - i]]) >>

single_cluster(texts) == << cluster_record(0, texts) >>

\* a faulty variant: the last claim is never appended
members_of_without_last(texts, labels, lbl) ==
    Select(texts, {i \in 1..(Min(Len(texts), Len(labels)) - 1) : labels[i] = lbl})

\* clusters[int(lbl)].append(summary) for summary, lbl in zip(...): the
\* members of label lbl, in input order
members_of(texts, labels, lbl) ==
    Select(texts, {i \in 1..Min(Len(texts), Len(labels)) : labels[i] = lbl})

GroupsOf(texts, labels, cids) ==
    List([i \in 1..Len(cids) |->
            cluster_record(cids[i], members_of(texts, labels, cids[i]))])

\* the cluster list before sorting: one record per label, in the order the
\* labels first occur
grouped_clusters(texts, labels) ==
    GroupsOf(texts, labels,
             Distinct(Take(labels, Min(Len(texts), Len(labels)))))

\* a faulty variant: the list stays in the order the labels first occur
sort_by_size_skipped(cluster_list) == cluster_list

\* cluster_list.sort(key=lambda c: c["size"], reverse=True)
sort_by_size(cluster_list) ==
    SortDesc(cluster_list,
             List([i \in 1..Len(cluster_list) |-> cluster_list[i].size]))

\* cluster_summaries(summaries, embeddings); kmeans tells whether sklearn was
\* imported, fit is the outcome of fit_predict when the call is reached
cluster_summaries(texts, vectors, kmeans, fit) ==
    IF Len(texts) = 0 THEN <<>>
    ELSE IF ~reaches_kmeans(texts, kmeans)
         THEN single_cluster(texts)
    ELSE IF fit[1] = "raise"
         THEN single_cluster(texts)
    ELSE sort_by_size(grouped_clusters(texts, fit[2]))

---------------------------------------------------------------------------
(* Step 3: the prompt block. *)

cluster_block_lines(c) ==
    << <<"S", "u", "b", "-", "t", "o", "p", "i", "c", " ">> \o str(c.cluster_id) \o <<" ", "(", "a", "p", "p", "r", "o", "x", ".", " ">> \o str(c.size)
          \o <<" ", "c", "o", "m", "m", "e", "n", "t", "s", ")">>,
       <<" ", " ", "K", "e", "y", "w", "o", "r", "d", "s", ":", " ">>
          \o (IF c.keywords # <<>> THEN join(<<",", " ">>, c.keywords)
              ELSE <<"N", "/", "A">>),
       <<" ", " ", "E", "x", "a", "m", "p", "l", "e", " ", "s", "u", "m", "m", "a", "r", "i", "e", "s", ":">> >>
    \o [i \in 1..Len(Take(c.example_summaries, EXAMPLES_PER_BLOCK)) |->
            <<" ", " ", " ", " ">> \o c.example_summaries[i]]
    \o << <<>> >>

build_cluster_prompt_block(cluster_list) ==
    join(<<"\n">>,
         Flatten([i \in 1..Len(cluster_list) |->
                     cluster_block_lines(cluster_list[i])]))

---------------------------------------------------------------------------
(* json.loads on the forms the replies use: objects, arrays, strings with   *)
(* backslash escapes, integers, true, false, null.  A parsed value is a     *)
(* tagged tuple: <<"str", chars>>, <<"int", n>>, <<"null">>, <<"true">>,    *)
(* <<"false">>, <<"list", items>>, <<"dict", <<key, value>> pairs>>.        *)
(* A parse result is <<ok, value, next position>>.                          *)

\* Python's None, where a text is expected
None == << "None" >>

JsonFail == <<FALSE, <<"null">>, 0>>

RECURSIVE SkipWs(_, _)
SkipWs(s, i) ==
    IF i <= Len(s) /\ s[i] \in Whitespace THEN SkipWs(s, i + 1) ELSE i

IsDigit(c) == \E d \in 1..10 : c = Digits[d]
DigitValue(c) == (CHOOSE d \in 1..10 : c = Digits[d]) - 1

Unescape(c) ==
    CASE c = "n" -> "\n"
      [] c = "t" -> "\t"
      [] OTHER   -> c

\* after the opening quote at i - 1: up to the closing quote; a raw control
\* character is an error.  A backslash escapes the character after it.
ParseStringBody(s, i) ==
    LET \* the backslashes directly before position j, back to i
        slashes(j) == CHOOSE c \in 0..(j - i) :
                        /\ \A d \in 1..c : s[j - d] = "\\"
                        /\ (c = j - i \/ s[j - c - 1] # "\\")
        escaped(j) == slashes(j) % 2 = 1
        quotes == {j \in i..Len(s) : s[j] = "\"" /\ ~escaped(j)}
    IN  IF quotes = {} THEN JsonFail
        ELSE LET close == CHOOSE j \in quotes : \A l \in quotes : j <= l
                 kept  == {j \in i..(close - 1) : ~(s[j] = "\\" /\ ~escaped(j))}
             IN  IF \E j \in i..(close - 1) : s[j] \in {"\n", "\t"}
                 THEN JsonFail
                 ELSE << TRUE,
                         << "str",
                            [k \in 1..Cardinality(kept) |->
                                LET j == Nth(kept, k)
                                IN  IF escaped(j) THEN Unescape(s[j]) ELSE s[j]] >>,
                         close + 1 >>

RECURSIVE ParseDigits(_, _, _)
ParseDigits(s, i, acc) ==
    IF i <= Len(s) /\ IsDigit(s[i])
    THEN ParseDigits(s, i + 1, acc * 10 + DigitValue(s[i]))
    ELSE <<acc, i>>

\* an integer: -? (0 | [1-9][0-9]*)
ParseNumber(s, i) ==
    LET neg   == s[i] = "-"
        start == IF neg THEN i + 1 ELSE i
    IN  IF start > Len(s) \/ ~IsDigit(s[start]) THEN JsonFail
        ELSE IF s[start] = "0"
             THEN <<TRUE, <<"int", 0>>, start + 1>>
        ELSE LET d == ParseDigits(s, start, 0)
             IN  <<TRUE, <<"int", IF neg THEN 0 - d[1] ELSE d[1]>>, d[2]>>

ParseLiteral(s, i, word, value) ==
    IF SubSeq(s, i, Min(Len(s), i + Len(word) - 1)) = word
    THEN <<TRUE, value, i + Len(word)>>
    ELSE JsonFail

RECURSIVE ParseValue(_, _)
RECURSIVE ParseItems(_, _, _)
RECURSIVE ParseMembers(_, _, _)

\* the items of an array after "[" or ","
ParseItems(s, i, acc) ==
    LET v == ParseValue(s, i)
    IN  IF ~v[1] THEN JsonFail
        ELSE LET j == SkipWs(s, v[3])
             IN  IF j > Len(s) THEN JsonFail
                 ELSE IF s[j] = "]"
                      THEN <<TRUE, <<"list", Append(acc, v[2])>>, j + 1>>
                 ELSE IF s[j] = ","
                      THEN ParseItems(s, j + 1, Append(acc, v[2]))
                 ELSE JsonFail

\* the members of an object after "{" or ","
ParseMembers(s, i, acc) ==
    LET k == SkipWs(s, i)
    IN  IF k > Len(s) \/ s[k] # "\"" THEN JsonFail
        ELSE LET key == ParseStringBody(s, k + 1)
             IN  IF ~key[1] THEN JsonFail
                 ELSE LET c == SkipWs(s, key[3])
                      IN  IF c > Len(s) \/ s[c] # ":" THEN JsonFail
                          ELSE LET v == ParseValue(s, c + 1)
                               IN  IF ~v[1] THEN JsonFail
                                   ELSE LET j    == SkipWs(s, v[3])
                                            acc2 == Append(acc, <<key[2][2], v[2]>>)
                                        IN  IF j > Len(s) THEN JsonFail
                                            ELSE IF s[j] = "}"
                                                 THEN <<TRUE, <<"dict", acc2>>, j + 1>>
                                            ELSE IF s[j] = ","
                                                 THEN ParseMembers(s, j + 1, acc2)
                                            ELSE JsonFail

ParseValue(s, i0) ==
    LET i == SkipWs(s, i0)
    IN  IF i > Len(s) THEN JsonFail
        ELSE IF s[i] = "\"" THEN ParseStringBody(s, i + 1)
        ELSE IF s[i] = "{"
             THEN LET j == SkipWs(s, i + 1)
                  IN  IF j <= Len(s) /\ s[j] = "}"
                      THEN <<TRUE, <<"dict", <<>>>>, j + 1>>
                      ELSE ParseMembers(s, i + 1, <<>>)
        ELSE IF s[i] = "["
             THEN LET j == SkipWs(s, i + 1)
                  IN  IF j <= Len(s) /\ s[j] = "]"
                      THEN <<TRUE, <<"list", <<>>>>, j + 1>>
                      ELSE ParseItems(s, i + 1, <<>>)
        ELSE IF s[i] = "-" \/ IsDigit(s[i]) THEN ParseNumber(s, i)
        ELSE IF s[i] = "t" THEN ParseLiteral(s, i, <<"t", "r", "u", "e">>, <<"true">>)
        ELSE IF s[i] = "f"
             THEN ParseLiteral(s, i, <<"f", "a", "l", "s", "e">>, <<"false">>)
        ELSE IF s[i] = "n" THEN ParseLiteral(s, i, <<"n", "u", "l", "l">>, <<"null">>)
        ELSE JsonFail

\* json.loads(s): <<"ok", value>>, or <<"error">> where it raises
json_loads(s) ==
    LET v == ParseValue(s, 1)
    IN  IF v[1] /\ SkipWs(s, v[3]) > Len(s) THEN <<"ok", v[2]>> ELSE <<"error">>

\* re.search(r'\{[\s\S]*\}', text).group(): from the first "{" to the last
\* "}" after it; None when there is no such span
brace_search(text) ==
    LET opens  == {i \in 1..Len(text) : text[i] = "{"}
        closes == {i \in 1..Len(text) : text[i] = "}"}
    IN  IF opens = {} THEN None
        ELSE LET first == CHOOSE i \in opens : \A j \in opens : i <= j
                 after == {j \in closes : j > first}
             IN  IF after = {} THEN None
                 ELSE SubSeq(text, first,
                             CHOOSE j \in after : \A l \in after : l <= j)

\* dict.get(key, default): the last member of that key
dict_get(d, key, default) ==
    LET hits == {i \in 1..Len(d[2]) : d[2][i][1] = key}
    IN  IF hits = {} THEN default
        ELSE d[2][CHOOSE i \in hits : \A j \in hits : j <= i][2]

\* bool(v)
truthy(v) ==
    CASE v[1] = "str"   -> v[2] # <<>>
      [] v[1] = "int"   -> v[2] # 0
      [] v[1] = "list"  -> v[2] # <<>>
      [] v[1] = "dict"  -> v[2] # <<>>
      [] v[1] = "true"  -> TRUE
      [] OTHER          -> FALSE

py_int_str(n) == IF n < 0 THEN <<"-">> \o str(0 - n) ELSE str(n)

RECURSIVE py_repr(_)
\* repr(v), which str() of a list or dict uses for the elements
py_repr(v) ==
    CASE v[1] = "str"   -> <<"'">> \o v[2] \o <<"'">>
      [] v[1] = "int"   -> py_int_str(v[2])
      [] v[1] = "null"  -> <<"N", "o", "n", "e">>
      [] v[1] = "true"  -> <<"T", "r", "u", "e">>
      [] v[1] = "false" -> <<"F", "a", "l", "s", "e">>
      [] v[1] = "list"  ->
            <<"[">> \o join(<<",", " ">>,
                            [i \in 1..Len(v[2]) |-> py_repr(v[2][i])]) \o <<"]">>
      [] v[1] = "dict"  ->
            <<"{">> \o join(<<",", " ">>,
                            [i \in 1..Len(v[2]) |->
                                <<"'">> \o v[2][i][1] \o <<"'", ":", " ">>
                                \o py_repr(v[2][i][2])]) \o <<"}">>

\* str(v)
py_str(v) == IF v[1] = "str" THEN v[2] ELSE py_repr(v)

EMPTY_INSIGHT == [summary |-> <<>>, recommendations |-> <<>>]

\* recs = [str(r).strip() for r in recs if str(r).strip()]
coerce_list(items) ==
    LET stripped == [i \in 1..Len(items) |-> strip(py_str(items[i]))]
    IN  Filter(stripped, Range(stripped) \ {<<>>})

\* the coercion of data.get("recommendations") or []
coerce_recommendations(data) ==
    LET got  == dict_get(data, <<"r", "e", "c", "o", "m", "m", "e", "n", "d", "a",
                                 "t", "i", "o", "n", "s">>, <<"null">>)
        recs == IF truthy(got) THEN got ELSE <<"list", <<>>>>
    IN  IF recs[1] = "list" THEN coerce_list(recs[2])
        ELSE << strip(py_str(recs)) >>

\* a faulty variant: the list is returned whole
cap_recommendations_whole(recs) == recs

\* recs[:3]
cap_recommendations(recs) == Take(recs, MAX_RECOMMENDATIONS)

\* the body of the try block of generate_theme_insight_from_clusters once the
\* call has returned `content` (None or a text); an exception raised inside
\* it (json.loads, .strip() of a non-string) gives the except branch's result
parse_insight(content) ==
    LET text == strip(IF content = None THEN <<>> ELSE content)
        json_match == brace_search(text)
    IN  IF json_match # None
        THEN LET data == json_loads(json_match)
             IN  IF data[1] = "error" THEN EMPTY_INSIGHT
                 ELSE LET summary == dict_get(data[2],
                                              <<"s", "u", "m", "m", "a", "r", "y">>,
                                              <<"str", <<>>>>)
                      IN  IF summary[1] # "str" THEN EMPTY_INSIGHT
                          ELSE [ summary |-> strip(summary[2]),
                                 recommendations |->
                                     cap_recommendations(
                                         coerce_recommendations(data[2])) ]
        ELSE [ summary |-> Take(text, RAW_SUMMARY_CHARS),
               recommendations |-> <<>> ]

---------------------------------------------------------------------------
(* json.dump(all_insights, f, indent=2, ensure_ascii=False). *)

\* the text of a JSON string literal
json_string(s) ==
    LET special(c) == c \in {"\"", "\\", "\n", "\t"}
        start(i)   == i + Cardinality({j \in 1..(i - 1) : special(s[j])})
        total      == Len(s) + Cardinality({j \in 1..Len(s) : special(s[j])})
        source(q)  == CHOOSE i \in 1..Len(s) :
                        start(i) <= q /\ q <= start(i) + (IF special(s[i]) THEN 1 ELSE 0)
        escape(c)  == CASE c = "\n" -> "n" [] c = "\t" -> "t" [] OTHER -> c
    IN  <<"\"">>
        \o [q \in 1..total |->
               LET i == source(q)
               IN  IF ~special(s[i]) THEN s[i]
                   ELSE IF q = start(i) THEN "\\" ELSE escape(s[i])]
        \o <<"\"">>

Indent(level) == [i \in 1..(2 * level) |-> " "]

RECURSIVE json_dumps(_, _)
\* the text json.dump writes for a value, nested `level` deep
json_dumps(v, level) ==
    CASE v[1] = "str"   -> json_string(v[2])
      [] v[1] = "int"   -> py_int_str(v[2])
      [] v[1] = "null"  -> <<"n", "u", "l", "l">>
      [] v[1] = "true"  -> <<"t", "r", "u", "e">>
      [] v[1] = "false" -> <<"f", "a", "l", "s", "e">>
      [] v[1] = "list"  ->
            IF v[2] = <<>> THEN <<"[", "]">>
            ELSE <<"[", "\n">>
                 \o join(<<",", "\n">>,
                         [i \in 1..Len(v[2]) |->
                             Indent(level + 1) \o json_dumps(v[2][i], level + 1)])
                 \o <<"\n">> \o Indent(level) \o <<"]">>
      [] v[1] = "dict"  ->
            IF v[2] = <<>> THEN <<"{", "}">>
            ELSE <<"{", "\n">>
                 \o join(<<",", "\n">>,
                         [i \in 1..Len(v[2]) |->
                             Indent(level + 1) \o json_string(v[2][i][1])
                             \o <<":", " ">>
                             \o json_dumps(v[2][i][2], level + 1)])
                 \o <<"\n">> \o Indent(level) \o <<"}">>

str_list_value(texts) ==
    <<"list", [i \in 1..Len(texts) |-> <<"str", texts[i]>>]>>

\* an insights record as the dict the code builds, keys in insertion order
insights_value(r) ==
    <<"dict",
      << << <<"p", "o", "s", "i", "t", "i", "v", "e", "_", "s", "u", "m", "m", "a", "r", "y">>, <<"str", r.positive_summary>> >>,
         << <<"n", "e", "g", "a", "t", "i", "v", "e", "_", "s", "u", "m", "m", "a", "r", "y">>, <<"str", r.negative_summary>> >>,
         << <<"p", "o", "s", "i", "t", "i", "v", "e", "_", "r", "e", "c", "o", "m", "m", "e", "n", "d", "a", "t", "i", "o", "n", "s">>, str_list_value(r.positive_recommendations) >>,
         << <<"n", "e", "g", "a", "t", "i", "v", "e", "_", "r", "e", "c", "o", "m", "m", "e", "n", "d", "a", "t", "i", "o", "n", "s">>, str_list_value(r.negative_recommendations) >> >> >>

\* all_insights (a list of <<key, record>> in insertion order) as a value
table_value(table) ==
    <<"dict", [i \in 1..Len(table) |-> <<table[i][1], insights_value(table[i][2])>>]>>

dump_table(table) == json_dumps(table_value(table), 0)

\* a faulty variant: the file is opened for appending
open_a_json_dump(previous, table) ==
    IF previous = None THEN dump_table(table)
    ELSE previous \o dump_table(table)

\* the text of a file after open(path, "w") and json.dump(table): what the
\* file held before (previous) is gone
open_w_json_dump(previous, table) == dump_table(table)

\* a faulty variant: the record is not stored
dict_set_dropped(d, key, value) == d

\* d[key] = value on a dict kept as a list of <<key, value>>
dict_set(d, key, value) ==
    IF \E i \in 1..Len(d) : d[i][1] = key
    THEN [i \in 1..Len(d) |-> IF d[i][1] = key THEN <<key, value>> ELSE d[i]]
    ELSE Append(d, <<key, value>>)

dict_keys(d) == [i \in 1..Len(d) |-> d[i][1]]

---------------------------------------------------------------------------
(* The store: themes and comments. *)

BASE_THEME == <<"b", "a", "s", "e", "_", "t", "h", "e", "m", "e">>
SUB_THEME == <<"s", "u", "b", "_", "t", "h", "e", "m", "e">>
PAY == <<"p", "a", "y">>
SHIFT == <<"s", "h", "i", "f", "t">>
OTHERS == <<"o", "t", "h", "e", "r", "s">>
STOCK_MARKET == <<"s", "t", "o", "c", "k", "_", "m", "a", "r", "k", "e", "t">>

\* the characters of codes 32 to 95, in order
Ascii ==
    << " ", "!", "\"", "#", "$", "%", "&", "'", "(", ")", "*", "+", ",", "-", ".", "/",
       "0", "1", "2", "3", "4", "5", "6", "7", "8", "9", ":", ";", "<", "=", ">", "?",
       "@", "A", "B", "C", "D", "E", "F", "G", "H", "I", "J", "K", "L", "M", "N", "O",
       "P", "Q", "R", "S", "T", "U", "V", "W", "X", "Y", "Z", "[", "\\", "]", "^", "_" >>

\* ord(c)
Ord(c) ==
    CASE c = "\t" -> 9
      [] c = "\n" -> 10
      [] \E i \in 1..26 : LowerCase[i] = c ->
            96 + (CHOOSE i \in 1..26 : LowerCase[i] = c)
      [] c = "{" -> 123
      [] c = "|" -> 124
      [] c = "}" -> 125
      [] c = "~" -> 126
      [] OTHER -> 31 + (CHOOSE i \in 1..Len(Ascii) : Ascii[i] = c)

\* a < b on str
str_less(a, b) ==
    \E i \in 1..(Min(Len(a), Len(b)) + 1) :
        /\ \A j \in 1..(i - 1) : a[j] = b[j]
        /\ \/ (i > Len(a) /\ i <= Len(b))
           \/ (i <= Len(a) /\ i <= Len(b) /\ Ord(a[i]) < Ord(b[i]))

\* sorted(S) for a set of str
sorted(S) ==
    [k \in 1..Cardinality(S) |->
        CHOOSE x \in S : Cardinality({y \in S : str_less(y, x)}) = k - 1]

\* the rows the themes query may return (base_theme, sub_theme columns)
ThemeRows ==
    { [base_theme |-> PAY,    sub_theme |-> SHIFT],
      [base_theme |-> OTHERS, sub_theme |-> None] }

exclude_values == {OTHERS, STOCK_MARKET, None, <<>>}

\* get_all_themes() on the rows `data`: <<base_themes, sub_themes>>
get_all_themes(data) ==
    << sorted({d.base_theme : d \in data} \ exclude_values),
       sorted({d.sub_theme : d \in data} \ exclude_values) >>

\* the command lines: --type, --limit (<<>> when absent), --theme
ArgTypes == {"base", "sub", "all"}
ArgLimits == {<<>>, <<0>>, <<1>>}
ArgThemes == {None, PAY}

\* themes[:limit] if limit else themes
limit_themes(themes, limit) ==
    IF limit # <<>> /\ limit[1] # 0
    THEN (IF limit[1] >= 0 THEN Take(themes, limit[1])
          ELSE Take(themes, Max(Len(themes) + limit[1], 0)))
    ELSE themes

tagged(theme_type, themes) == [i \in 1..Len(themes) |-> <<theme_type, themes[i]>>]

\* themes_to_process as main builds it
select_themes(arg_type, arg_limit, arg_theme, base_themes, sub_themes) ==
    IF arg_theme # None
    THEN (IF arg_type \in {"base", "all"} /\ arg_theme \in Range(base_themes)
          THEN << <<BASE_THEME, arg_theme>> >> ELSE <<>>)
         \o (IF arg_type \in {"sub", "all"} /\ arg_theme \in Range(sub_themes)
             THEN << <<SUB_THEME, arg_theme>> >> ELSE <<>>)
    ELSE (IF arg_type \in {"base", "all"}
          THEN tagged(BASE_THEME, limit_themes(base_themes, arg_limit)) ELSE <<>>)
         \o (IF arg_type \in {"sub", "all"}
             THEN tagged(SUB_THEME, limit_themes(sub_themes, arg_limit)) ELSE <<>>)

\* f"{theme_type}_{theme_name}"
insight_key(theme_type, theme_name) == theme_type \o <<"_">> \o theme_name

\* a comment longer than the 150 characters of the fallback claim
LONG_COMMENT ==
    [i \in 1..155 |-> << "l", "o", "n", "g", " " >>[((i - 1) % 5) + 1]]

POSITIVE == <<"p", "o", "s", "i", "t", "i", "v", "e">>
NEGATIVE == <<"n", "e", "g", "a", "t", "i", "v", "e">>

\* the rows a comment query may return (content, sentiment, likes columns;
\* likes is <<>> for NULL)
CommentRows ==
    { [content |-> <<" ", "g", "o", "o", "d", " ", "p", "a", "y", " ">>, sentiment |-> <<"P", "o", "s", "i", "t", "i", "v", "e">>, likes |-> <<0>>],
      [content |-> LONG_COMMENT, sentiment |-> None, likes |-> <<-6>>],
      [content |-> <<" ", " ">>, sentiment |-> NEGATIVE, likes |-> <<>>] }

RECURSIVE SeqsUpTo(_, _)
\* the lists of at most n elements of S
SeqsUpTo(S, n) ==
    IF n = 0 THEN {<<>>}
    ELSE LET shorter == SeqsUpTo(S, n - 1)
         IN  shorter \cup {Append(s, x) : s \in shorter, x \in S}

\* "positive", "negative" or "skip": where the loop of get_theme_content puts
\* a row
row_class(item) ==
    LET content   == strip(IF item.content = None THEN <<>> ELSE item.content)
        sentiment == lower(IF item.sentiment = None THEN <<>> ELSE item.sentiment)
        likes     == IF item.likes = <<>> THEN 0 ELSE item.likes[1]
        is_positive == sentiment = POSITIVE
        is_negative == sentiment = NEGATIVE
    IN  IF content = <<>> THEN "skip"
        ELSE IF is_positive THEN "positive"
        ELSE IF is_negative THEN "negative"
        ELSE IF likes > 5 THEN "positive"
        ELSE IF likes < -5 THEN "negative"
        ELSE "skip"

contents_of(rows, class) ==
    Select(List([i \in 1..Len(rows) |-> strip(rows[i].content)]),
           {i \in 1..Len(rows) : row_class(rows[i]) = class})

\* get_theme_content on the rows the query returned: <<pos, neg>>
get_theme_content(rows) ==
    << contents_of(rows, "positive"), contents_of(rows, "negative") >>

---------------------------------------------------------------------------
(* Step 1: per-comment summaries. *)

\* what client.chat.completions.create answers to a summary prompt: an
\* exception, or a message content (None or a text)
SummaryReplies ==
    { <<"raise">>,
      <<"content", <<"P", "a", "y", " ", "i", "s", " ", "l", "a", "t", "e", ".">>>>,
      <<"content", <<" ", "-", " ", "a", "\n", "-", "b", "\n", "*", " ", "c", "\n", " ", "-", " ", "d">>>>,
      <<"content", None>> }

StripEach(lines) == List([i \in 1..Len(lines) |-> strip(lines[i])])

WithDash(lines) ==
    Select(lines, {i \in 1..Len(lines) : startswith(lines[i], <<"-">>)})

\* [ln.strip() for ln in content.splitlines() if ln.strip().startswith("-")]
bullet_lines(content) == WithDash(StripEach(splitlines(content)))

\* f"- {text[:150]}"
fallback_claim(text) == <<"-", " ">> \o Take(text, FALLBACK_CHARS)

\* a faulty variant: no fallback claim when the call raises
claims_of_without_except(text, reply) ==
    IF reply[1] = "raise" THEN <<>>
    ELSE LET content == strip(IF reply[2] = None THEN <<>> ELSE reply[2])
             lines   == bullet_lines(content)
         IN  IF lines = <<>> THEN << fallback_claim(text) >> ELSE lines

\* the claims one iteration of the loop of summarize_comments adds
claims_of(text, reply) ==
    IF reply[1] = "raise" THEN << fallback_claim(text) >>
    ELSE LET content == strip(IF reply[2] = None THEN <<>> ELSE reply[2])
             lines   == bullet_lines(content)
         IN  IF lines = <<>> THEN << fallback_claim(text) >> ELSE lines

---------------------------------------------------------------------------
(* Step 2: embeddings. *)

\* what client.embeddings.create answers for a batch: an exception, or one
\* vector per text (vector i stands for the vector of text i)
EmbeddingReplies(texts) ==
    { <<"raise">>, <<"data", [i \in 1..Len(texts) |-> i]>> }

---------------------------------------------------------------------------
(* Step 3: the insight. *)

\* what client.chat.completions.create answers to an insight prompt
InsightReplies ==
    { <<"raise">>,
      <<"content", <<"{", "\"", "s", "u", "m", "m", "a", "r", "y", "\"", ":", " ", "\"", "P", "a", "y", " ", "i", "s", " ", "l", "a", "t", "e", "\"", ",", " ", "\"", "r", "e", "c", "o", "m", "m", "e", "n", "d", "a", "t", "i", "o", "n", "s", "\"", ":", " ", "[", "\"", "P", "a", "y", " ", "w", "e", "e", "k", "l", "y", "\"", "]", "}">>>>,
      <<"content", <<"N", "o", " ", "J", "S", "O", "N">>>> }

\* a faulty variant: the exception of the call is not caught, the text of
\* the error ends up in the result
insight_of_reply_without_except(reply) ==
    IF reply[1] = "raise"
    THEN [summary |-> <<"e", "r", "r", "o", "r">>, recommendations |-> <<>>]
    ELSE parse_insight(reply[2])

\* generate_theme_insight_from_clusters once the call has answered `reply`
insight_of_reply(reply) ==
    IF reply[1] = "raise" THEN EMPTY_INSIGHT ELSE parse_insight(reply[2])

\* a faulty variant: total_comments is not looked at
insight_call_made_ignoring_total(cluster_list, total_comments) ==
    cluster_list # <<>>

\* whether generate_theme_insight_from_clusters calls the model at all
insight_call_made(cluster_list, total_comments) ==
    ~(cluster_list = <<>> \/ total_comments = 0)

---------------------------------------------------------------------------
(* main() and generate_insights_for_theme. *)

ADVANCED_FILE == "theme_insights_advanced.json"
BASIC_FILE == "theme_insights.json"

\* the insights dict generate_insights_for_theme starts from
EMPTY_INSIGHTS ==
    [ positive_summary         |-> <<>>,
      negative_summary         |-> <<>>,
      positive_recommendations |-> <<>>,
      negative_recommendations |-> <<>> ]

\* a faulty variant: the summary is written to both sentiments
set_insight_both(record, label, insight) ==
    IF label = "positive"
    THEN [record EXCEPT !.positive_summary = insight.summary,
                        !.negative_summary = insight.summary,
                        !.positive_recommendations = insight.recommendations]
    ELSE [record EXCEPT !.negative_summary = insight.summary,
                        !.positive_summary = insight.summary,
                        !.negative_recommendations = insight.recommendations]

\* insights[f"{label}_summary"], insights[f"{label}_recommendations"] = ...
set_insight(record, label, insight) ==
    IF label = "positive"
    THEN [record EXCEPT !.positive_summary = insight.summary,
                        !.positive_recommendations = insight.recommendations]
    ELSE [record EXCEPT !.negative_summary = insight.summary,
                        !.negative_recommendations = insight.recommendations]

\* a faulty variant: the key is never found missing
key_missing_never(key) == FALSE

\* `if not getattr(Config, "OPENAI_API_KEY", None)`
key_missing(key) == ~key

current_theme == themes_to_process[idx]
current_key == insight_key(current_theme[1], current_theme[2])

\* a table left by an earlier run
OLD_TABLE ==
    << << insight_key(SUB_THEME, OTHERS),
          [EMPTY_INSIGHTS EXCEPT !.positive_summary = <<"o", "l", "d">>] >> >>

\* the services answer as they please
NO_STUB == [run |-> 0, pairs |-> <<>>, first |-> None]

\* the requests of one kind and payload that the fixed answers hold
known(fixed, kind, payload) ==
    {i \in 1..Len(fixed.pairs) :
        fixed.pairs[i][1] = kind /\ fixed.pairs[i][2] = payload}

\* what a request may be answered: with the answers held fixed, a request
\* made before gets the answer it got then
answers(fixed, replies, kind, payload) ==
    IF fixed.run = 0 \/ known(fixed, kind, payload) = {} THEN replies
    ELSE {fixed.pairs[CHOOSE i \in known(fixed, kind, payload) : TRUE][3]}

\* the fixed answers once the request has been answered with reply
noted(fixed, kind, payload, reply) ==
    IF fixed.run = 0 \/ known(fixed, kind, payload) # {} THEN fixed
    ELSE [fixed EXCEPT !.pairs = Append(@, <<kind, payload, reply>>)]

\* main() runs: no function is called on its own
NO_INVOCATION == [fn |-> "none"]

\* the locals of one iteration of the loop of main, gone when it ends
LocalsCleared ==
    /\ pos_contents' = <<>>
    /\ neg_contents' = <<>>
    /\ calls' = <<>>
    /\ side' = "none"
    /\ comments_to_use' = <<>>
    /\ cix' = 0
    /\ summaries' = <<>>
    /\ embeddings' = <<>>
    /\ clusters' = <<>>
    /\ insights' = EMPTY_INSIGHTS

\* the loop of main goes on to the next theme
NextTheme(outcome) ==
    /\ idx' = idx + 1
    /\ pc' = "loop"
    /\ outcomes' = Append(outcomes, outcome)
    /\ LocalsCleared

\* a faulty variant: the exception leaves the loop of main
theme_except_missing(outcome) ==
    /\ pc' = "crashed"
    /\ idx' = idx
    /\ outcomes' = Append(outcomes, outcome)
    /\ LocalsCleared
    /\ UNCHANGED all_insights

\* `except Exception` of the loop of main: the theme is given up, the loop
\* goes on
theme_except(outcome) ==
    /\ NextTheme(outcome)
    /\ UNCHANGED all_insights

\* summarize_comments(contents, ...) is entered for one sentiment
BeginSide(label, contents) ==
    /\ side' = label
    /\ comments_to_use' = _evenly_sample(contents, MAX_SUMMARIES_PER_THEME)
    /\ cix' = 1
    /\ summaries' = <<>>
    /\ embeddings' = <<>>
    /\ clusters' = <<>>
    /\ pc' = "summarize"

CheckKey ==
    /\ pc = "start"
    /\ pc' = IF key_missing(api_key) THEN "exit" ELSE "get_all_themes"
    /\ UNCHANGED << invocation, _theme_insights_cache, stub,
                    api_key, KMeans, themes_to_process, idx, pos_contents,
                    neg_contents, side, comments_to_use, cix, summaries,
                    embeddings, clusters, insights, all_insights, files, calls,
                    n_queries, n_writes, outcomes >>

\* get_all_themes() and the choice of themes_to_process from the command line
GetAllThemes ==
    /\ pc = "get_all_themes"
    /\ n_queries' = n_queries + 1
    /\ \E reply \in answers(stub, {<<"raise">>}
                                   \cup {<<"data", d>> : d \in SUBSET ThemeRows},
                             "themes", <<>>) :
          IF reply[1] = "raise"
          THEN /\ pc' = "crashed"
               /\ stub' = noted(stub, "themes", <<>>, reply)
               /\ UNCHANGED <<themes_to_process, idx>>
          ELSE \E argv \in answers(stub, ArgTypes \X ArgLimits \X ArgThemes,
                                   "argv", <<>>) :
                  LET themes == get_all_themes(reply[2])
                  IN  /\ themes_to_process' =
                            select_themes(argv[1], argv[2], argv[3],
                                          themes[1], themes[2])
                      /\ idx' = 1
                      /\ pc' = "loop"
                      /\ stub' = noted(noted(stub, "themes", <<>>, reply),
                                       "argv", <<>>, argv)
    /\ UNCHANGED << invocation, _theme_insights_cache,
                    api_key, KMeans, pos_contents, neg_contents, side,
                    comments_to_use, cix, summaries, embeddings, clusters,
                    insights, all_insights, files, calls, n_writes, outcomes >>

\* one iteration of the loop of main up to the first summary call
FetchTheme ==
    /\ pc = "loop"
    /\ idx <= Len(themes_to_process)
    /\ n_queries' = n_queries + 1
    /\ \E reply \in answers(stub, {<<"raise">>}
                    \cup {<<"data", rows>> : rows \in SeqsUpTo(CommentRows, MaxRows)},
                             "content", current_theme) :
          /\ stub' = noted(stub, "content", current_theme, reply)
          /\ IF reply[1] = "raise"
             THEN theme_except("fetch_failed")
             ELSE LET split == get_theme_content(reply[2])
                  IN  IF split[1] = <<>> /\ split[2] = <<>>
                      THEN /\ NextTheme("no_content")
                           /\ UNCHANGED all_insights
                      ELSE /\ pos_contents' = split[1]
                           /\ neg_contents' = split[2]
                           /\ insights' = EMPTY_INSIGHTS
                           /\ IF split[1] # <<>>
                              THEN BeginSide("positive", split[1])
                              ELSE BeginSide("negative", split[2])
                           /\ UNCHANGED <<idx, outcomes, all_insights, calls>>
    /\ UNCHANGED << invocation, _theme_insights_cache,
                    api_key, KMeans, themes_to_process, files, n_writes >>

\* a faulty variant: a comment whose call failed is taken up again
next_comment_retried(position, ok) == IF ok THEN position + 1 ELSE position

\* the loop of summarize_comments goes on to the next comment, whether the
\* call answered (ok) or raised
next_comment(position, ok) == position + 1

\* one iteration of the loop of summarize_comments
Summarize ==
    /\ pc = "summarize"
    /\ cix <= Len(comments_to_use)
    /\ \E reply \in answers(stub, SummaryReplies, "summary",
                             Take(comments_to_use[cix], PROMPT_CHARS)) :
          /\ stub' = noted(stub, "summary",
                           Take(comments_to_use[cix], PROMPT_CHARS), reply)
          /\ summaries' = summaries \o claims_of(comments_to_use[cix], reply)
          /\ calls' = Append(calls, [kind |-> "summary", side |-> side,
                                     arg |-> cix, ok |-> reply[1] # "raise"])
          /\ cix' = next_comment(cix, reply[1] # "raise")
    /\ pc' = IF cix' <= Len(comments_to_use) THEN "summarize" ELSE "embed"
    /\ UNCHANGED << invocation, _theme_insights_cache,
                    api_key, KMeans, themes_to_process, idx, pos_contents,
                    neg_contents, side, comments_to_use, embeddings, clusters,
                    insights, all_insights, files, n_queries, n_writes,
                    outcomes >>

\* `if summaries:` and embed_texts(summaries, client)
Embed ==
    /\ pc = "embed"
    /\ IF summaries = <<>>
       THEN /\ pc' = "side_done"
            /\ UNCHANGED << stub, idx, pos_contents, neg_contents, side,
                            comments_to_use, cix, summaries, embeddings,
                            clusters, insights, all_insights, calls, outcomes >>
       ELSE \E reply \in answers(stub, EmbeddingReplies(summaries), "embed",
                                 summaries) :
               /\ stub' = noted(stub, "embed", summaries, reply)
               /\ IF reply[1] = "raise"
                  THEN theme_except("embed_failed")
                  ELSE /\ embeddings' = reply[2]
                       /\ calls' = Append(calls, [kind |-> "embed", side |-> side,
                                                  arg |-> Len(summaries),
                                                  ok |-> TRUE])
                       /\ pc' = "cluster"
                       /\ UNCHANGED << idx, pos_contents, neg_contents, side,
                                       comments_to_use, cix, summaries, clusters,
                                       insights, all_insights, outcomes >>
    /\ UNCHANGED << invocation, _theme_insights_cache,
                    api_key, KMeans, themes_to_process, files, n_queries,
                    n_writes >>

\* cluster_summaries(summaries, embeddings)
Cluster ==
    /\ pc = "cluster"
    /\ LET reached == reaches_kmeans(summaries, KMeans)
           k       == choose_k(Len(summaries))
       IN  \E fit \in (IF reached
                       THEN answers(stub, fit_predict(k, embeddings), "kmeans",
                                    <<k, embeddings>>)
                       ELSE {<<"none">>}) :
              /\ stub' = IF reached
                         THEN noted(stub, "kmeans", <<k, embeddings>>, fit)
                         ELSE stub
              /\ clusters' = cluster_summaries(summaries, embeddings, KMeans, fit)
              /\ calls' = IF reached
                          THEN Append(calls, [kind |-> "kmeans", side |-> side,
                                              arg |-> k,
                                              ok |-> fit[1] # "raise"])
                          ELSE calls
    /\ pc' = "insight"
    /\ UNCHANGED << invocation, _theme_insights_cache,
                    api_key, KMeans, themes_to_process, idx, pos_contents,
                    neg_contents, side, comments_to_use, cix, summaries,
                    embeddings, insights, all_insights, files, n_queries,
                    n_writes, outcomes >>

\* generate_theme_insight_from_clusters and the two assignments after it
Insight ==
    /\ pc = "insight"
    /\ LET total == Len(IF side = "positive" THEN pos_contents
                        ELSE neg_contents)
       IN  IF ~insight_call_made(clusters, total)
           THEN /\ calls' = calls
                /\ stub' = stub
                /\ insights' = set_insight(insights, side, EMPTY_INSIGHT)
           ELSE \E reply \in answers(stub, InsightReplies, "insight",
                                     <<current_theme, side, total, clusters>>) :
                   /\ stub' = noted(stub, "insight",
                                    <<current_theme, side, total, clusters>>,
                                    reply)
                   /\ calls' = Append(calls, [kind |-> "insight", side |-> side,
                                              arg |-> Len(clusters),
                                              ok |-> reply[1] # "raise",
                                              result |-> insight_of_reply(reply)])
                   /\ insights' = set_insight(insights, side,
                                              insight_of_reply(reply))
    /\ pc' = "side_done"
    /\ UNCHANGED << invocation, _theme_insights_cache,
                    api_key, KMeans, themes_to_process, idx, pos_contents,
                    neg_contents, side, comments_to_use, cix, summaries,
                    embeddings, clusters, all_insights, files, n_queries,
                    n_writes, outcomes >>

\* after one sentiment: the negative side follows the positive one; after
\* the last side generate_insights_for_theme returns and main stores the
\* record
SideDone ==
    /\ pc = "side_done"
    /\ IF side = "positive" /\ neg_contents # <<>>
       THEN /\ BeginSide("negative", neg_contents)
            /\ UNCHANGED << idx, pos_contents, neg_contents, insights,
                            all_insights, calls, outcomes >>
       ELSE /\ all_insights' = dict_set(all_insights, current_key, insights)
            /\ NextTheme("written")
    /\ UNCHANGED << invocation, _theme_insights_cache, stub,
                    api_key, KMeans, themes_to_process, files, n_queries,
                    n_writes >>

\* json.dump(all_insights, f, ...) after the loop
Save ==
    /\ pc = "loop"
    /\ idx > Len(themes_to_process)
    /\ files' = [files EXCEPT ![ADVANCED_FILE] =
                     open_w_json_dump(files[ADVANCED_FILE], all_insights)]
    /\ n_writes' = n_writes + 1
    /\ pc' = "done"
    /\ UNCHANGED << invocation, _theme_insights_cache, stub,
                    api_key, KMeans, themes_to_process, idx, pos_contents,
                    neg_contents, side, comments_to_use, cix, summaries,
                    embeddings, clusters, insights, all_insights, calls,
                    n_queries, outcomes >>

Init ==
    /\ api_key \in BOOLEAN
    /\ KMeans \in BOOLEAN
    /\ pc = "start"
    /\ themes_to_process = <<>>
    /\ idx = 0
    /\ pos_contents = <<>>
    /\ neg_contents = <<>>
    /\ side = "none"
    /\ comments_to_use = <<>>
    /\ cix = 0
    /\ summaries = <<>>
    /\ embeddings = <<>>
    /\ clusters = <<>>
    /\ insights = EMPTY_INSIGHTS
    /\ all_insights = <<>>
    /\ files = [f \in {ADVANCED_FILE, BASIC_FILE} |->
                    IF f = ADVANCED_FILE THEN dump_table(OLD_TABLE) ELSE None]
    /\ calls = <<>>
    /\ n_queries = 0
    /\ n_writes = 0
    /\ outcomes = <<>>
    /\ _theme_insights_cache = None
    /\ stub = NO_STUB
    /\ invocation = NO_INVOCATION

Next ==
    \/ CheckKey
    \/ GetAllThemes
    \/ FetchTheme
    \/ Summarize
    \/ Embed
    \/ Cluster
    \/ Insight
    \/ SideDone
    \/ Save

Spec == Init /\ [][Next]_vars

---------------------------------------------------------------------------
(* cluster_summaries on its own: the pipeline stands before the call with   *)
(* n claims, one per comment (every summary call fell back), and n vectors. *)

UnitWords == << <<"p", "a", "y">>, <<"t", "h", "e", " ", "r", "o", "s", "t", "e", "r">>, <<"l", "a", "t", "e", " ", "s", "h", "i", "f", "t">> >>

UnitComment(i) == UnitWords[(i % 3) + 1] \o <<" ">> \o str(i)

UnitComments(n) == [i \in 1..n |-> UnitComment(i)]

InitCluster ==
    \E n \in 1..MaxUnitClaims :
        /\ api_key = TRUE
        /\ KMeans \in BOOLEAN
        /\ pc = "cluster"
        /\ themes_to_process = << <<BASE_THEME, PAY>> >>
        /\ idx = 1
        /\ pos_contents = UnitComments(n)
        /\ neg_contents = <<>>
        /\ side = "positive"
        /\ comments_to_use = UnitComments(n)
        /\ cix = n + 1
        /\ summaries = [i \in 1..n |-> fallback_claim(UnitComment(i))]
        /\ embeddings = [i \in 1..n |-> i]
        /\ clusters = <<>>
        /\ insights = EMPTY_INSIGHTS
        /\ all_insights = <<>>
        /\ files = [f \in {ADVANCED_FILE, BASIC_FILE} |->
                        IF f = ADVANCED_FILE THEN dump_table(OLD_TABLE) ELSE None]
        /\ calls = [i \in 1..(n + 1) |->
                        IF i <= n
                        THEN [kind |-> "summary", side |-> "positive",
                              arg |-> i, ok |-> TRUE]
                        ELSE [kind |-> "embed", side |-> "positive",
                              arg |-> n, ok |-> TRUE]]
        /\ n_queries = 2
        /\ n_writes = 0
        /\ outcomes = <<>>
        /\ _theme_insights_cache = None
        /\ stub = NO_STUB
        /\ invocation = NO_INVOCATION

SpecCluster == InitCluster /\ [][Cluster]_vars

\* cluster_summaries is entered with a list of vectors that is one shorter
\* or one longer than the list of claims: embed_texts returns one vector per
\* item of the answer of the embedding service
InitMismatch ==
    \E n \in MIN_CLUSTER_SUMMARIES..MaxUnitClaims : \E m \in {n - 1, n + 1} :
        /\ api_key = TRUE
        /\ KMeans \in BOOLEAN
        /\ pc = "cluster"
        /\ themes_to_process = << <<BASE_THEME, PAY>> >>
        /\ idx = 1
        /\ pos_contents = UnitComments(n)
        /\ neg_contents = <<>>
        /\ side = "positive"
        /\ comments_to_use = UnitComments(n)
        /\ cix = n + 1
        /\ summaries = [i \in 1..n |-> fallback_claim(UnitComment(i))]
        /\ embeddings = [i \in 1..m |-> i]
        /\ clusters = <<>>
        /\ insights = EMPTY_INSIGHTS
        /\ all_insights = <<>>
        /\ files = [f \in {ADVANCED_FILE, BASIC_FILE} |->
                        IF f = ADVANCED_FILE THEN dump_table(OLD_TABLE) ELSE None]
        /\ calls = [i \in 1..(n + 1) |->
                        IF i <= n
                        THEN [kind |-> "summary", side |-> "positive",
                              arg |-> i, ok |-> TRUE]
                        ELSE [kind |-> "embed", side |-> "positive",
                              arg |-> n, ok |-> TRUE]]
        /\ n_queries = 2
        /\ n_writes = 0
        /\ outcomes = <<>>
        /\ _theme_insights_cache = None
        /\ stub = NO_STUB
        /\ invocation = NO_INVOCATION

SpecMismatch == InitMismatch /\ [][Cluster]_vars

---------------------------------------------------------------------------
(* A theme with 40 positive comments and no negative one, sklearn imported: *)
(* generate_insights_for_theme from the summary of the last comment to the  *)
(* return of cluster_summaries.  The 39 comments before it gave one claim   *)
(* each.                                                                    *)

SCENARIO_COMMENTS == 40

InitScenario ==
    /\ api_key = TRUE
    /\ KMeans = TRUE
    /\ pc = "summarize"
    /\ themes_to_process = << <<BASE_THEME, PAY>> >>
    /\ idx = 1
    /\ pos_contents = UnitComments(SCENARIO_COMMENTS)
    /\ neg_contents = <<>>
    /\ side = "positive"
    /\ comments_to_use = _evenly_sample(UnitComments(SCENARIO_COMMENTS),
                                        MAX_SUMMARIES_PER_THEME)
    /\ cix = SCENARIO_COMMENTS
    /\ summaries = [i \in 1..(SCENARIO_COMMENTS - 1) |->
                        fallback_claim(UnitComment(i))]
    /\ embeddings = <<>>
    /\ clusters = <<>>
    /\ insights = EMPTY_INSIGHTS
    /\ all_insights = <<>>
    /\ files = [f \in {ADVANCED_FILE, BASIC_FILE} |->
                    IF f = ADVANCED_FILE THEN dump_table(OLD_TABLE) ELSE None]
    /\ calls = [i \in 1..(SCENARIO_COMMENTS - 1) |->
                    [kind |-> "summary", side |-> "positive",
                     arg |-> i, ok |-> TRUE]]
    /\ n_queries = 2
    /\ n_writes = 0
    /\ outcomes = <<>>
    /\ _theme_insights_cache = None
    /\ stub = NO_STUB
    /\ invocation = NO_INVOCATION

NextScenario ==
    \/ Summarize
    \/ Embed
    \/ Cluster

SpecScenario == InitScenario /\ [][NextScenario]_vars

---------------------------------------------------------------------------
(* Functions called on their own: the pipeline is not running, invocation   *)
(* holds the name of the function, its arguments and its outcome.           *)

\* the variables of main() while a function is called on its own
NotRunning ==
    /\ api_key = TRUE
    /\ KMeans = TRUE
    /\ pc = "unit"
    /\ themes_to_process = <<>>
    /\ idx = 0
    /\ pos_contents = <<>>
    /\ neg_contents = <<>>
    /\ side = "none"
    /\ comments_to_use = <<>>
    /\ cix = 0
    /\ summaries = <<>>
    /\ embeddings = <<>>
    /\ clusters = <<>>
    /\ insights = EMPTY_INSIGHTS
    /\ all_insights = <<>>
    /\ files = [f \in {ADVANCED_FILE, BASIC_FILE} |-> None]
    /\ calls = <<>>
    /\ n_queries = 0
    /\ n_writes = 0
    /\ outcomes = <<>>
    /\ _theme_insights_cache = None
    /\ stub = NO_STUB

PENDING == <<"pending">>

\* _evenly_sample(items, max_samples) as a call: the list it returns, or the
\* ZeroDivisionError of len(items) / max_samples
evenly_sample_outcome(items, max_samples) ==
    IF Len(items) <= max_samples THEN <<"return", _evenly_sample(items, max_samples)>>
    ELSE IF max_samples = 0 THEN <<"raise", "ZeroDivisionError">>
    ELSE <<"return", _evenly_sample(items, max_samples)>>

InitSampler ==
    /\ NotRunning
    /\ \E n \in 0..MaxItems, max_samples \in 0..MaxItems :
          invocation = [ fn          |-> "_evenly_sample",
                         items       |-> UnitComments(n),
                         max_samples |-> max_samples,
                         outcome     |-> PENDING ]

EvenlySample ==
    /\ invocation.fn = "_evenly_sample"
    /\ invocation.outcome = PENDING
    /\ invocation' =
          [invocation EXCEPT !.outcome =
              evenly_sample_outcome(invocation.items, invocation.max_samples)]
    /\ UNCHANGED << _theme_insights_cache, stub,
                    api_key, KMeans, pc, themes_to_process, idx, pos_contents,
                    neg_contents, side, comments_to_use, cix, summaries,
                    embeddings, clusters, insights, all_insights, files, calls,
                    n_queries, n_writes, outcomes >>

SpecSampler == InitSampler /\ [][EvenlySample]_vars

---------------------------------------------------------------------------
(* generate_theme_insight_from_clusters on its own. *)

\* JSON objects a reply may carry, by the value under "recommendations"
OBJECT_FIVE_ITEMS == <<"{", "\"", "s", "u", "m", "m", "a", "r", "y", "\"", ":", " ", "\"", " ", "P", "a", "y", " ", "i", "s", " ", "l", "a", "t", "e", " ", "\"", ",", " ", "\"", "r", "e", "c", "o", "m", "m", "e", "n", "d", "a", "t", "i", "o", "n", "s", "\"", ":", " ", "[", "\"", "a", "\"", ",", " ", "\"", " ", "\"", ",", " ", "\"", "b", "\"", ",", " ", "\"", "c", "\"", ",", " ", "\"", "d", "\"", "]", "}">>
OBJECT_TEXT_RECS == <<"{", "\"", "s", "u", "m", "m", "a", "r", "y", "\"", ":", " ", "\"", "S", "\"", ",", " ", "\"", "r", "e", "c", "o", "m", "m", "e", "n", "d", "a", "t", "i", "o", "n", "s", "\"", ":", " ", "\"", " ", "d", "o", " ", "i", "t", " ", "\"", "}">>
OBJECT_BLANK_RECS == <<"{", "\"", "s", "u", "m", "m", "a", "r", "y", "\"", ":", " ", "\"", "S", "\"", ",", " ", "\"", "r", "e", "c", "o", "m", "m", "e", "n", "d", "a", "t", "i", "o", "n", "s", "\"", ":", " ", "\"", " ", " ", "\"", "}">>
OBJECT_NUMBER_RECS == <<"{", "\"", "s", "u", "m", "m", "a", "r", "y", "\"", ":", " ", "\"", "S", "\"", ",", " ", "\"", "r", "e", "c", "o", "m", "m", "e", "n", "d", "a", "t", "i", "o", "n", "s", "\"", ":", " ", "7", "}">>
OBJECT_NULL_RECS == <<"{", "\"", "s", "u", "m", "m", "a", "r", "y", "\"", ":", " ", "\"", "S", "\"", ",", " ", "\"", "r", "e", "c", "o", "m", "m", "e", "n", "d", "a", "t", "i", "o", "n", "s", "\"", ":", " ", "n", "u", "l", "l", "}">>
OBJECT_NO_RECS == <<"{", "\"", "s", "u", "m", "m", "a", "r", "y", "\"", ":", " ", "\"", "S", "\"", "}">>
OBJECT_MIXED_RECS == <<"{", "\"", "r", "e", "c", "o", "m", "m", "e", "n", "d", "a", "t", "i", "o", "n", "s", "\"", ":", " ", "[", "1", ",", " ", "n", "u", "l", "l", ",", " ", "\"", "\"", ",", " ", "\"", "x", "\"", "]", "}">>
OBJECT_NUMBER_SUMMARY == <<"{", "\"", "s", "u", "m", "m", "a", "r", "y", "\"", ":", " ", "5", ",", " ", "\"", "r", "e", "c", "o", "m", "m", "e", "n", "d", "a", "t", "i", "o", "n", "s", "\"", ":", " ", "[", "\"", "a", "\"", "]", "}">>
\* a brace-delimited span that is not JSON
NOT_AN_OBJECT == <<"{", "n", "o", "t", " ", "j", "s", "o", "n", "}">>

JsonObjects ==
    { OBJECT_FIVE_ITEMS, OBJECT_TEXT_RECS, OBJECT_BLANK_RECS, OBJECT_NUMBER_RECS,
      OBJECT_NULL_RECS, OBJECT_NO_RECS, OBJECT_MIXED_RECS, OBJECT_NUMBER_SUMMARY }

\* the text a reply may put before and after the object
Prefixes == { <<>>, <<"S", "u", "r", "e", ":", " ">> }
Suffixes == { <<>>, <<" ", "D", "o", "n", "e", ".">>, <<" ", "{", "\"", "x", "\"", ":", " ", "1", "}">> }

\* what client.chat.completions.create answers when the function is called
\* on its own: an exception, no content, an object or a non-JSON span with
\* text around it, text without braces
SynthReplies ==
    { <<"raise">>, <<"content", None>>,
      <<"content", LONG_COMMENT \o LONG_COMMENT>> }
    \cup { <<"content", pre \o obj \o suf>> :
              pre \in Prefixes, obj \in JsonObjects \cup {NOT_AN_OBJECT},
              suf \in Suffixes }

InitSynth ==
    /\ NotRunning
    /\ \E n \in 0..2, total_comments \in 0..1,
          sentiment_label \in {"positive", "negative"} :
          invocation = [ fn              |-> "generate_theme_insight_from_clusters",
                         sentiment_label |-> sentiment_label,
                         clusters        |->
                             IF n = 0 THEN <<>>
                             ELSE single_cluster(
                                      [i \in 1..n |-> fallback_claim(UnitComment(i))]),
                         total_comments  |-> total_comments,
                         outcome         |-> PENDING ]

GenerateThemeInsightFromClusters ==
    /\ invocation.fn = "generate_theme_insight_from_clusters"
    /\ invocation.outcome = PENDING
    /\ IF ~insight_call_made(invocation.clusters, invocation.total_comments)
       THEN /\ calls' = calls
            /\ invocation' = [invocation EXCEPT
                                 !.outcome = <<"return", EMPTY_INSIGHT>>]
       ELSE \E reply \in SynthReplies :
               /\ calls' = Append(calls,
                                  [kind |-> "insight",
                                   side |-> invocation.sentiment_label,
                                   arg |-> Len(invocation.clusters),
                                   ok |-> reply[1] # "raise",
                                   result |-> insight_of_reply(reply),
                                   reply |-> reply])
               /\ invocation' = [invocation EXCEPT
                                    !.outcome = <<"return", insight_of_reply(reply)>>]
    /\ UNCHANGED << _theme_insights_cache, stub,
                    api_key, KMeans, pc, themes_to_process, idx, pos_contents,
                    neg_contents, side, comments_to_use, cix, summaries,
                    embeddings, clusters, insights, all_insights, files,
                    n_queries, n_writes, outcomes >>

SpecSynth == InitSynth /\ [][GenerateThemeInsightFromClusters]_vars


---------------------------------------------------------------------------
\* answers fixed in advance that take the base theme "pay" to the KMeans
\* call: a store with MaxUnitClaims + 1 positive comments, every summary
\* call raising, one vector per claim
ManyCommentsPairs ==
    << <<"content", <<BASE_THEME, PAY>>,
         <<"data", [i \in 1..(MaxUnitClaims + 1) |->
                      [content |-> UnitComment(i), sentiment |-> POSITIVE,
                       likes |-> <<>>]]>> >> >>
    \o [i \in 1..(MaxUnitClaims + 1) |->
          <<"summary", Take(UnitComment(i), PROMPT_CHARS), <<"raise">>>>]
    \o << <<"embed",
            [i \in 1..(MaxUnitClaims + 1) |-> fallback_claim(UnitComment(i))],
            <<"data", [i \in 1..(MaxUnitClaims + 1) |-> i]>> >> >>

\* the command line of the runs that are repeated: --type base
RerunArgs == { <<"base", <<>>, None>> }

\* the pipeline is run a first time with the answers of the services held
\* fixed; main has parsed its command line and called get_all_themes
InitRerun ==
    /\ api_key = TRUE
    /\ KMeans \in BOOLEAN
    /\ pc = "loop"
    /\ \E argv \in RerunArgs, more \in {<<>>, ManyCommentsPairs} :
          /\ themes_to_process =
                select_themes(argv[1], argv[2], argv[3],
                              get_all_themes(ThemeRows)[1],
                              get_all_themes(ThemeRows)[2])
          /\ stub = [run |-> 1,
                     pairs |-> << <<"themes", <<>>, <<"data", ThemeRows>> >>,
                                  <<"argv", <<>>, argv>> >> \o more,
                     first |-> None]
    /\ idx = 1
    /\ pos_contents = <<>>
    /\ neg_contents = <<>>
    /\ side = "none"
    /\ comments_to_use = <<>>
    /\ cix = 0
    /\ summaries = <<>>
    /\ embeddings = <<>>
    /\ clusters = <<>>
    /\ insights = EMPTY_INSIGHTS
    /\ all_insights = <<>>
    /\ files = [f \in {ADVANCED_FILE, BASIC_FILE} |->
                    IF f = ADVANCED_FILE THEN dump_table(OLD_TABLE) ELSE None]
    /\ calls = <<>>
    /\ n_queries = 1
    /\ n_writes = 0
    /\ outcomes = <<>>
    /\ _theme_insights_cache = None
    /\ invocation = NO_INVOCATION

\* the script is started again after a run that has written its table: a
\* new process, the files as the first run left them
Rerun ==
    /\ pc = "done"
    /\ stub.run = 1
    /\ stub' = [stub EXCEPT !.run = 2, !.first = files[ADVANCED_FILE]]
    /\ pc' = "start"
    /\ themes_to_process' = <<>>
    /\ idx' = 0
    /\ all_insights' = <<>>
    /\ n_queries' = 0
    /\ n_writes' = 0
    /\ outcomes' = <<>>
    /\ LocalsCleared
    /\ UNCHANGED << api_key, KMeans, files, invocation, _theme_insights_cache >>

NextRerun == Next \/ Rerun

SpecRerun == InitRerun /\ [][NextRerun]_vars

---------------------------------------------------------------------------
(* The choice of K in cluster_summaries on its own. *)

\* the largest number of claims the choice of K is computed for
MaxClusterInput == 120

\* cluster_summaries has passed the single-cluster test with n claims
InitChooseK ==
    /\ NotRunning
    /\ \E n \in MIN_CLUSTER_SUMMARIES..MaxClusterInput :
          invocation = [fn |-> "choose_k", n |-> n, outcome |-> PENDING]

\* the three statements that set k
ChooseK ==
    /\ invocation.fn = "choose_k"
    /\ invocation.outcome = PENDING
    /\ invocation' = [invocation EXCEPT !.outcome = <<"k", choose_k(invocation.n)>>]
    /\ UNCHANGED << _theme_insights_cache, stub,
                    api_key, KMeans, pc, themes_to_process, idx, pos_contents,
                    neg_contents, side, comments_to_use, cix, summaries,
                    embeddings, clusters, insights, all_insights, files, calls,
                    n_queries, n_writes, outcomes >>

SpecChooseK == InitChooseK /\ [][ChooseK]_vars

---------------------------------------------------------------------------
(* keywords_from_texts called on its own. *)

\* texts per call
MaxTexts == 2
\* the largest top_k of a call
MaxTopK == 3

\* texts with a stop word, tokens of less than 3 letters, capitals, and
\* tokens of equal frequency
KeywordTexts ==
    { <<"P", "a", "y", " ", "t", "h", "e", " ", "p", "a", "y">>,
      <<"l", "a", "t", "e", " ", "s", "h", "i", "f", "t", ",", " ", "T", "H", "E", " ", "r", "t">>,
      <<"S", "h", "i", "f", "t", " ", "i", "s", " ", "l", "a", "t", "e">>,
      <<"n", "o", " ", "p", "a", "y", " ", "a", "t", " ", "a", "l", "l">> }

InitKeywords ==
    /\ NotRunning
    /\ \E texts \in SeqsUpTo(KeywordTexts, MaxTexts), top_k \in 0..MaxTopK :
          invocation = [fn |-> "keywords_from_texts", texts |-> texts,
                        top_k |-> top_k, outcome |-> PENDING]

\* keywords_from_texts(texts, top_k) as a call: the list it returns
KeywordsFromTexts ==
    /\ invocation.fn = "keywords_from_texts"
    /\ invocation.outcome = PENDING
    /\ invocation' =
          [invocation EXCEPT !.outcome =
              <<"returned", keywords_from_texts(invocation.texts,
                                                invocation.top_k)>>]
    /\ UNCHANGED << _theme_insights_cache, stub,
                    api_key, KMeans, pc, themes_to_process, idx, pos_contents,
                    neg_contents, side, comments_to_use, cix, summaries,
                    embeddings, clusters, insights, all_insights, files, calls,
                    n_queries, n_writes, outcomes >>

SpecKeywords == InitKeywords /\ [][KeywordsFromTexts]_vars

---------------------------------------------------------------------------
(* The single-stage pipeline (generate_theme_insights.py) and the lookup of *)
(* the presentation server (routes/analysis.py).                           *)

UNABLE_TO_GENERATE == <<"U", "n", "a", "b", "l", "e", " ", "t", "o", " ", "g", "e", "n", "e", "r", "a", "t", "e", " ", "i", "n", "s", "i", "g", "h", "t", "s", " ", "a", "t", " ", "t", "h", "i", "s", " ", "t", "i", "m", "e", ".">>
NO_INSIGHTS_AVAILABLE == <<"N", "o", " ", "i", "n", "s", "i", "g", "h", "t", "s", " ", "a", "v", "a", "i", "l", "a", "b", "l", "e", " ", "f", "o", "r", " ", "t", "h", "i", "s", " ", "t", "h", "e", "m", "e", ".">>
BASIC_SUMMARY_CHARS == 200
BASIC_MAX_RECOMMENDATIONS == 2

\* the class the single-stage get_theme_content gives a row: the sentiment
\* compared as it is stored, else the likes
basic_row_class(row) ==
    IF row.content = None \/ row.content = <<>> THEN "skip"
    ELSE IF row.sentiment = POSITIVE THEN "positive"
    ELSE IF row.sentiment = NEGATIVE THEN "negative"
    ELSE LET likes == IF row.likes = <<>> THEN 0 ELSE row.likes[1]
         IN  IF likes > 5 THEN "positive"
             ELSE IF likes < -5 THEN "negative"
             ELSE "skip"

\* get_theme_content of the single-stage pipeline: <<pos, neg>>, the
\* contents as stored
basic_get_theme_content(rows) ==
    << Select(List([i \in 1..Len(rows) |-> rows[i].content]),
              {i \in 1..Len(rows) : basic_row_class(rows[i]) = "positive"}),
       Select(List([i \in 1..Len(rows) |-> rows[i].content]),
              {i \in 1..Len(rows) : basic_row_class(rows[i]) = "negative"}) >>

\* a JSON value as the insights record keeps it: a string as its text
plain(v) == IF v[1] = "str" THEN v[2] ELSE v

\* what the except branch leaves for one sentiment
BASIC_FAILED == [summary |-> UNABLE_TO_GENERATE, recommendations |-> <<>>]

\* the two assignments from the parsed object, recs its "recommendations"
basic_from_object(summary, recs) ==
    IF recs[1] \notin {"list", "str"} THEN BASIC_FAILED
    ELSE [summary |-> plain(summary),
          recommendations |->
             IF recs[1] = "str"
             THEN Take(recs[2], BASIC_MAX_RECOMMENDATIONS)
             ELSE Take([i \in 1..Len(recs[2]) |-> plain(recs[2][i])],
                       BASIC_MAX_RECOMMENDATIONS)]

\* after json.loads(json_match.group())
basic_from_loaded(data) ==
    IF data[1] = "error" THEN BASIC_FAILED
    ELSE basic_from_object(
             dict_get(data[2], <<"s", "u", "m", "m", "a", "r", "y">>, <<"str", <<>>>>),
             dict_get(data[2], <<"r", "e", "c", "o", "m", "m", "e", "n", "d", "a", "t", "i", "o", "n", "s">>, <<"list", <<>>>>))

\* after re.search on the text of the answer
basic_from_match(response_text, json_match) ==
    IF json_match = None
    THEN [summary |-> Take(response_text, BASIC_SUMMARY_CHARS),
          recommendations |-> <<>>]
    ELSE basic_from_loaded(json_loads(json_match))

\* one sentiment of the single-stage generate_insights_for_theme once the
\* call has answered reply: the summary and recommendations it assigns
basic_insight_of_reply(reply) ==
    IF reply[1] = "raise" \/ reply[2] = None THEN BASIC_FAILED
    ELSE basic_from_match(reply[2], brace_search(reply[2]))

\* main() of the single-stage pipeline up to its first loop: the key
\* check, the themes query, the empty table
BasicStart ==
    /\ pc = "basic_start"
    /\ IF key_missing(api_key)
       THEN /\ pc' = "exit"
            /\ UNCHANGED <<themes_to_process, idx, all_insights, n_queries>>
       ELSE /\ n_queries' = n_queries + 1
            /\ \E reply \in {<<"raise">>}
                            \cup {<<"data", d>> : d \in SUBSET ThemeRows} :
                  IF reply[1] = "raise"
                  THEN /\ pc' = "crashed"
                       /\ UNCHANGED <<themes_to_process, idx, all_insights>>
                  ELSE LET themes == get_all_themes(reply[2])
                       IN  /\ themes_to_process' =
                                 tagged(BASE_THEME, themes[1])
                                 \o tagged(SUB_THEME, themes[2])
                           /\ idx' = 1
                           /\ all_insights' = <<>>
                           /\ pc' = "basic_loop"
    /\ UNCHANGED << invocation, _theme_insights_cache, stub, api_key, KMeans,
                    pos_contents, neg_contents, side, comments_to_use, cix,
                    summaries, embeddings, clusters, insights, files, calls,
                    n_writes, outcomes >>

\* one iteration of a loop of the single-stage main up to the call of
\* generate_insights_for_theme
BasicFetch ==
    /\ pc = "basic_loop"
    /\ idx <= Len(themes_to_process)
    /\ n_queries' = n_queries + 1
    /\ \E reply \in {<<"raise">>}
                    \cup {<<"data", rows>> : rows \in SeqsUpTo(CommentRows, MaxRows)} :
          IF reply[1] = "raise"
          THEN /\ idx' = idx + 1
               /\ outcomes' = Append(outcomes, "fetch_failed")
               /\ UNCHANGED <<pc, pos_contents, neg_contents, insights>>
          ELSE LET split == basic_get_theme_content(reply[2])
               IN  IF split[1] = <<>> /\ split[2] = <<>>
                   THEN /\ idx' = idx + 1
                        /\ outcomes' = Append(outcomes, "no_content")
                        /\ UNCHANGED <<pc, pos_contents, neg_contents, insights>>
                   ELSE /\ pos_contents' = split[1]
                        /\ neg_contents' = split[2]
                        /\ insights' = EMPTY_INSIGHTS
                        /\ pc' = "basic_positive"
                        /\ UNCHANGED <<idx, outcomes>>
    /\ calls' = <<>>
    /\ UNCHANGED << invocation, _theme_insights_cache, stub, api_key, KMeans,
                    themes_to_process, side, comments_to_use, cix, summaries,
                    embeddings, clusters, all_insights, files, n_writes >>

\* the insights record after the sentiment label has got insight
BasicAfter(label, contents, insight) ==
    IF contents = <<>> THEN insights ELSE set_insight(insights, label, insight)

\* the call log after the call for the sentiment label
BasicCalls(label, contents, reply, insight) ==
    IF contents = <<>> THEN calls
    ELSE Append(calls, [kind |-> "insight", side |-> label, arg |-> 0,
                        ok |-> reply[1] # "raise", result |-> insight])

BasicPositiveWith(reply, insight) ==
    /\ insights' = BasicAfter("positive", pos_contents, insight)
    /\ calls' = BasicCalls("positive", pos_contents, reply, insight)

\* the positive half of the single-stage generate_insights_for_theme
BasicPositive ==
    /\ pc = "basic_positive"
    /\ \E reply \in (IF pos_contents = <<>> THEN {<<"raise">>} ELSE InsightReplies) :
          BasicPositiveWith(reply, basic_insight_of_reply(reply))
    /\ pc' = "basic_negative"
    /\ UNCHANGED << invocation, _theme_insights_cache, stub, api_key, KMeans,
                    themes_to_process, idx, pos_contents, neg_contents, side,
                    comments_to_use, cix, summaries, embeddings, clusters,
                    all_insights, files, n_queries, n_writes, outcomes >>

BasicNegativeWith(reply, record) ==
    /\ insights' = record
    /\ calls' = BasicCalls("negative", neg_contents, reply,
                           [summary |-> record.negative_summary,
                            recommendations |-> record.negative_recommendations])
    /\ all_insights' =
          dict_set(all_insights,
                   insight_key(themes_to_process[idx][1],
                               themes_to_process[idx][2]),
                   record)

\* the negative half, the return, and the store of the record by main
BasicNegative ==
    /\ pc = "basic_negative"
    /\ \E reply \in (IF neg_contents = <<>> THEN {<<"raise">>} ELSE InsightReplies) :
          BasicNegativeWith(reply, BasicAfter("negative", neg_contents,
                                              basic_insight_of_reply(reply)))
    /\ outcomes' = Append(outcomes, "written")
    /\ idx' = idx + 1
    /\ pc' = "basic_loop"
    /\ UNCHANGED << invocation, _theme_insights_cache, stub, api_key, KMeans,
                    themes_to_process, pos_contents, neg_contents, side,
                    comments_to_use, cix, summaries, embeddings, clusters,
                    files, n_queries, n_writes >>

\* the end of the single-stage main: the table replaces theme_insights.json
BasicSave ==
    /\ pc = "basic_loop"
    /\ idx > Len(themes_to_process)
    /\ files' = [files EXCEPT ![BASIC_FILE] =
                     open_w_json_dump(files[BASIC_FILE], all_insights)]
    /\ n_writes' = n_writes + 1
    /\ pc' = "basic_done"
    /\ UNCHANGED << invocation, _theme_insights_cache, stub, api_key, KMeans,
                    themes_to_process, idx, pos_contents, neg_contents, side,
                    comments_to_use, cix, summaries, embeddings, clusters,
                    insights, all_insights, calls, n_queries, outcomes >>

\* what json.load gave, or {} when it raised
loaded_or_empty(loaded) ==
    IF loaded[1] = "error" THEN <<"dict", <<>>>> ELSE loaded[2]

\* load_theme_insights(): the table of the server, read from
\* theme_insights.json (text, None when the file is absent) the first time
load_theme_insights(cache, text) ==
    IF cache # None THEN cache
    ELSE IF text = None THEN <<"dict", <<>>>>
    ELSE loaded_or_empty(json_loads(text))

\* the request is answered before the table is looked at
rejected(theme_type, theme_name) ==
    \/ theme_type \in {None, <<>>}
    \/ theme_name \in {None, <<>>}
    \/ theme_type \notin {BASE_THEME, SUB_THEME}

NOT_FOUND ==
    [ positive_summary         |-> NO_INSIGHTS_AVAILABLE,
      negative_summary         |-> NO_INSIGHTS_AVAILABLE,
      positive_recommendations |-> <<>>,
      negative_recommendations |-> <<>> ]

\* the answer of get_theme_insights on the table insights_data: the status
\* and the body
get_theme_insights(theme_type, theme_name, insights_data) ==
    IF theme_type \in {None, <<>>} \/ theme_name \in {None, <<>>}
    THEN <<400, <<"dict", << <<<<"e", "r", "r", "o", "r">>, <<"str", <<"t", "h", "e", "m", "e", "_", "t", "y", "p", "e", " ", "a", "n", "d", " ", "t", "h", "e", "m", "e", "_", "n", "a", "m", "e", " ", "a", "r", "e", " ", "r", "e", "q", "u", "i", "r", "e", "d">>>> >> >> >> >>
    ELSE IF theme_type \notin {BASE_THEME, SUB_THEME}
    THEN <<400, <<"dict", << <<<<"e", "r", "r", "o", "r">>, <<"str", <<"t", "h", "e", "m", "e", "_", "t", "y", "p", "e", " ", "m", "u", "s", "t", " ", "b", "e", " ", "e", "i", "t", "h", "e", "r", " ", "\"", "b", "a", "s", "e", "_", "t", "h", "e", "m", "e", "\"", " ", "o", "r", " ", "\"", "s", "u", "b", "_", "t", "h", "e", "m", "e", "\"">>>> >> >> >> >>
    ELSE <<200, dict_get(insights_data, insight_key(theme_type, theme_name),
                         insights_value(NOT_FOUND))>>

\* the requests sent to /theme-insights: <<theme_type, theme_name>>
LookupRequests ==
    { <<BASE_THEME, PAY>>, <<SUB_THEME, OTHERS>>, <<SUB_THEME, None>>,
      <<PAY, PAY>> }

\* the request answered on the table insights_data
Answered(request, insights_data) ==
    /\ _theme_insights_cache' =
          IF rejected(request[1], request[2]) THEN _theme_insights_cache
          ELSE insights_data
    /\ invocation' =
          [fn |-> "get_theme_insights", theme_type |-> request[1],
           theme_name |-> request[2], writes |-> n_writes,
           outcome |-> get_theme_insights(request[1], request[2],
                                          insights_data)]

\* one request to /theme-insights, served by the server process
GetThemeInsights ==
    /\ \E request \in LookupRequests :
          Answered(request, load_theme_insights(_theme_insights_cache,
                                                files[BASIC_FILE]))
    /\ UNCHANGED << stub, api_key, KMeans, pc, themes_to_process, idx,
                    pos_contents, neg_contents, side, comments_to_use, cix,
                    summaries, embeddings, clusters, insights, all_insights,
                    files, calls, n_queries, n_writes, outcomes >>

\* the records the three-stage pipeline stores for a theme with positive
\* comments only
StoredRecords ==
    { set_insight(EMPTY_INSIGHTS, "positive", insight_of_reply(reply)) :
        reply \in InsightReplies }

\* a server that has not loaded the table, next to a pipeline: the
\* single-stage one about to start, or the three-stage one at the end of
\* its loop over one theme
InitServer ==
    /\ api_key \in BOOLEAN
    /\ KMeans = TRUE
    /\ \/ /\ pc = "basic_start"
          /\ themes_to_process = <<>>
          /\ idx = 0
          /\ all_insights = <<>>
          /\ outcomes = <<>>
          /\ n_queries = 0
       \/ /\ api_key
          /\ pc = "loop"
          /\ themes_to_process = << <<BASE_THEME, PAY>> >>
          /\ idx = 2
          /\ \E record \in StoredRecords :
                all_insights = << <<insight_key(BASE_THEME, PAY), record>> >>
          /\ outcomes = << "written" >>
          /\ n_queries = 2
    /\ pos_contents = <<>>
    /\ neg_contents = <<>>
    /\ side = "none"
    /\ comments_to_use = <<>>
    /\ cix = 0
    /\ summaries = <<>>
    /\ embeddings = <<>>
    /\ clusters = <<>>
    /\ insights = EMPTY_INSIGHTS
    /\ \E text \in {None, dump_table(OLD_TABLE)} :
          files = [f \in {ADVANCED_FILE, BASIC_FILE} |->
                      IF f = BASIC_FILE THEN text ELSE dump_table(OLD_TABLE)]
    /\ calls = <<>>
    /\ n_writes = 0
    /\ invocation = NO_INVOCATION
    /\ _theme_insights_cache = None
    /\ stub = NO_STUB

NextServer ==
    \/ BasicStart
    \/ BasicFetch
    \/ BasicPositive
    \/ BasicNegative
    \/ BasicSave
    \/ Save
    \/ GetThemeInsights

SpecServer == InitServer /\ [][NextServer]_vars

---------------------------------------------------------------------------
(* Properties. *)

theme_key(i) == insight_key(themes_to_process[i][1], themes_to_process[i][2])

KeysOf(value) == List([i \in 1..Len(value[2]) |-> value[2][i][1]])

\* the keys of the table the output file holds, in file order
persisted_keys == KeysOf(json_loads(files[ADVANCED_FILE])[2])

\* the <<summary, recommendations>> of one sentiment in an insights record
side_fields(record, label) ==
    IF label = "positive"
    THEN << record.positive_summary, record.positive_recommendations >>
    ELSE << record.negative_summary, record.negative_recommendations >>

other_side(label) == IF label = "positive" THEN "negative" ELSE "positive"

\* the logged calls made for one sentiment
calls_for(label) == SelectSeq(calls, LAMBDA c : c.side = label)

kmeans_called == \E i \in 1..Len(calls) : calls[i].kind = "kmeans"

kmeans_raised ==
    \E i \in 1..Len(calls) : calls[i].kind = "kmeans" /\ ~calls[i].ok

\* the places <<cluster, position>> where the claim c is a member
places_of(c) ==
    { pl \in (1..Len(clusters)) \X (1..Len(summaries)) :
        /\ pl[2] <= Len(clusters[pl[1]].summaries)
        /\ clusters[pl[1]].summaries[pl[2]] = c }

HeadingCount(lines) ==
    Cardinality({i \in 1..Len(lines) : startswith(lines[i], <<"S", "u", "b", "-", "t", "o", "p", "i", "c", " ">>)})

\* the number of cluster blocks in a prompt block
block_count(text) == HeadingCount(splitlines(text))

\* generate_insights_for_theme is about to return the record `insights`
returning == pc = "side_done" /\ ~(side = "positive" /\ neg_contents # <<>>)

(* C1: when cluster_summaries has returned, every claim it was given is a   *)
(* member of the clusters exactly as often as it was given (once, for a     *)
(* claim given once), every 'size' is the length of the member list, and    *)
(* the sizes sum to the number of claims.                                   *)
C1_ClustersPartitionClaims ==
    pc = "insight" =>
        /\ \A i \in 1..Len(summaries) :
              Cardinality(places_of(summaries[i])) = Count(summaries, summaries[i])
        /\ \A c \in 1..Len(clusters) :
              /\ clusters[c].size = Len(clusters[c].summaries)
              /\ \A j \in 1..Len(clusters[c].summaries) :
                    clusters[c].summaries[j] \in Range(summaries)
        /\ SumSeq(List([c \in 1..Len(clusters) |-> clusters[c].size]))
              = Len(summaries)

\* KMeans succeeded and split twelve claims into clusters of 7 and 5
C1_Witness ==
    /\ pc = "insight"
    /\ Len(summaries) = 12
    /\ kmeans_called /\ ~kmeans_raised
    /\ Len(clusters) = 2
    /\ clusters[1].size = 7
    /\ clusters[2].size = 5

(* C2: for every theme whose embedding call raised, a record of that theme  *)
(* is in the table the run builds.                                          *)
C2_EmbeddingFailureStillWrites ==
    \A i \in 1..Len(outcomes) :
        outcomes[i] = "embed_failed"
            => Count(dict_keys(all_insights), theme_key(i)) = 1

(* C3: every iteration of the loop of summarize_comments issues one call    *)
(* for the comment in turn, keeps the claims gathered so far, adds at least *)
(* one claim, and goes on to the next comment (to the embedding after the   *)
(* last) whether the call answered or raised; when the call raised the      *)
(* claims added are exactly the one claim "- " + the first 150 characters   *)
(* of the comment.                                                          *)
C3_SummarizeNeverRaises ==
    [][ pc = "summarize" =>
          LET text  == comments_to_use[cix]
              made  == calls'[Len(calls')]
              added == SubSeq(summaries', Len(summaries) + 1, Len(summaries'))
          IN  /\ pc' = (IF cix = Len(comments_to_use) THEN "embed"
                        ELSE "summarize")
              /\ cix' = cix + 1
              /\ outcomes' = outcomes
              /\ calls' = Append(calls, made)
              /\ made.kind = "summary" /\ made.side = side /\ made.arg = cix
              /\ Len(summaries') >= Len(summaries) + 1
              /\ SubSeq(summaries', 1, Len(summaries)) = summaries
              /\ (~made.ok =>
                    added = << <<"-", " ">>
                               \o SubSeq(text, 1, Min(150, Len(text))) >>)
      ]_vars

\* the call for the first of two long comments raised, the call for the
\* second answered with bullet lines, and the batch went on to the embedding
C3_Witness ==
    /\ pc = "embed"
    /\ Len(comments_to_use) = 2
    /\ Len(comments_to_use[1]) > 150
    /\ Len(calls) = 2
    /\ ~calls[1].ok
    /\ calls[2].ok
    /\ Len(summaries[1]) = 152
    /\ Len(summaries) = 4

(* C4: when KMeans is None or fit_predict raised, cluster_summaries has     *)
(* returned exactly one cluster, its members are all the claims in their    *)
(* original order, and the prompt block built from it has exactly one       *)
(* cluster block.                                                           *)
C4_NoClusteringOneCluster ==
    (pc = "insight" /\ summaries # <<>> /\ (~KMeans \/ kmeans_raised)) =>
        /\ Len(clusters) = 1
        /\ clusters[1].summaries = summaries
        /\ clusters[1].size = Len(summaries)
        /\ block_count(build_cluster_prompt_block(clusters)) = 1

\* fit_predict raised on twelve claims
C4_Witness ==
    /\ pc = "insight"
    /\ KMeans
    /\ kmeans_raised
    /\ Len(summaries) = 12
    /\ Len(clusters) = 1

(* C5: with 1 <= N < MIN_CLUSTER_SUMMARIES claims cluster_summaries has     *)
(* returned exactly one cluster holding all N claims, and KMeans was not    *)
(* called.                                                                  *)
C5_FewClaimsOneCluster ==
    (pc = "insight" /\ Len(summaries) >= 1
                    /\ Len(summaries) < MIN_CLUSTER_SUMMARIES) =>
        /\ Len(clusters) = 1
        /\ clusters[1].summaries = summaries
        /\ clusters[1].size = Len(summaries)
        /\ ~kmeans_called

\* eleven claims with KMeans imported
C5_Witness ==
    /\ pc = "insight"
    /\ KMeans
    /\ Len(summaries) = 11
    /\ Len(clusters) = 1

(* C6: when the call of generate_theme_insight_from_clusters raises, the    *)
(* function still returns: the theme goes on, the summary and the           *)
(* recommendations of that sentiment are "" and [], the fields of the other *)
(* sentiment stay as they were; and when generate_insights_for_theme        *)
(* returns, its record is stored under the key of the theme.                *)
C6_InsightFailureKeepsTheme ==
    [][ /\ (pc = "insight" /\ Len(calls') = Len(calls) + 1
                           /\ ~calls'[Len(calls')].ok) =>
              /\ pc' = "side_done"
              /\ idx' = idx
              /\ outcomes' = outcomes
              /\ side_fields(insights', side) = << <<>>, <<>> >>
              /\ side_fields(insights', other_side(side))
                    = side_fields(insights, other_side(side))
        /\ returning =>
              /\ << current_key, insights >> \in Range(all_insights')
              /\ outcomes' = Append(outcomes, "written")
      ]_vars

\* the negative synthesis call raised after the positive one had produced a
\* summary; the record is about to be stored
C6_Witness ==
    /\ returning
    /\ side = "negative"
    /\ calls # <<>>
    /\ calls[Len(calls)].kind = "insight"
    /\ ~calls[Len(calls)].ok
    /\ insights.positive_summary # <<>>
    /\ insights.negative_summary = <<>>

EmptySideUntouched(contents, label) ==
    contents = <<>> =>
        /\ side_fields(insights, label) = << <<>>, <<>> >>
        /\ calls_for(label) = <<>>
        /\ calls_for(other_side(label)) # <<>>
        /\ LET made == calls_for(other_side(label))
               last == made[Len(made)]
           IN  /\ last.kind = "insight"
               /\ side_fields(insights, other_side(label))
                     = << last.result.summary, last.result.recommendations >>

(* C8: when generate_insights_for_theme returns and one sentiment had no    *)
(* comment, the summary and recommendations of that sentiment are "" and    *)
(* [], no call was made for it, and the fields of the other sentiment are   *)
(* what its synthesis returned.                                             *)
C8_EmptySideLeavesOtherSide ==
    returning =>
        /\ EmptySideUntouched(pos_contents, "positive")
        /\ EmptySideUntouched(neg_contents, "negative")

\* a theme with negative comments only, its synthesis parsed from JSON
C8_Witness ==
    /\ returning
    /\ pos_contents = <<>>
    /\ neg_contents # <<>>
    /\ insights.negative_summary # <<>>
    /\ insights.negative_recommendations # <<>>

(* C9: a step in which the query or the processing of a theme raises ends  *)
(* that theme only: main stands at the head of the loop on the next theme   *)
(* with the records gathered so far; at the head of the loop every earlier  *)
(* theme has been attempted (one query each); and at the end of the run     *)
(* every theme of the list has been attempted, every theme that completed   *)
(* is stored and the table has been written to the output file once.        *)
C9_ErrorDoesNotStopLaterThemes ==
    /\ [][ (/\ Len(outcomes') = Len(outcomes) + 1
            /\ outcomes'[Len(outcomes')] \in {"fetch_failed", "embed_failed"})
           => /\ pc' = "loop"
              /\ idx' = idx + 1
              /\ themes_to_process' = themes_to_process
              /\ all_insights' = all_insights ]_vars
    /\ [](pc = "loop" =>
            /\ Len(outcomes) = idx - 1
            /\ n_queries = idx
            /\ idx <= Len(themes_to_process) + 1)
    /\ [](pc = "done" =>
            /\ Len(outcomes) = Len(themes_to_process)
            /\ n_queries = 1 + Len(themes_to_process)
            /\ \A i \in 1..Len(outcomes) :
                  outcomes[i] = "written"
                      => theme_key(i) \in Range(dict_keys(all_insights))
            /\ n_writes = 1
            /\ files[ADVANCED_FILE] = dump_table(all_insights))

\* the embedding of the first theme raised, the second theme was written
C9_Witness ==
    /\ pc = "done"
    /\ outcomes = << "embed_failed", "written" >>
    /\ persisted_keys = << theme_key(2) >>

(* C10: without OPENAI_API_KEY the run stops before anything else: no query *)
(* of the store, no call of a model, no theme taken up, no write of the     *)
(* output file.                                                             *)
C10_NoKeyNoWork ==
    ~api_key =>
        /\ pc \in {"start", "exit"}
        /\ n_queries = 0
        /\ calls = <<>>
        /\ themes_to_process = <<>>
        /\ outcomes = <<>>
        /\ n_writes = 0
        /\ files[ADVANCED_FILE] = dump_table(OLD_TABLE)

\* the run has exited for the missing key
C10_Witness == ~api_key /\ pc = "exit"


---------------------------------------------------------------------------
(* Claims about generate_theme_insight_from_clusters called on its own. *)

synth_returned ==
    /\ invocation.fn = "generate_theme_insight_from_clusters"
    /\ invocation.outcome # PENDING

synth_value == invocation.outcome[2]

\* the reply of the generation call, when one was made
synth_reply == calls[1].reply

(* C11: whatever path generate_theme_insight_from_clusters returns by       *)
(* (early empty return, parsed JSON, raw text, exception), the list of      *)
(* recommendations it returns has at most 3 elements.                       *)
C11_AtMostThreeRecommendations ==
    synth_returned =>
        Len(synth_value.recommendations) <= 3

\* a reply whose list has four non-blank elements
C11_Witness ==
    /\ synth_returned
    /\ calls # <<>>
    /\ synth_reply = <<"content", OBJECT_FIVE_ITEMS>>
    /\ synth_value.recommendations = << <<"a">>, <<"b">>, <<"c">> >>

(* C12: with an empty cluster list or total_comments = 0 the function       *)
(* returns {summary: "", recommendations: []} and no generation call is     *)
(* made.                                                                    *)
C12_NothingToSynthesizeNoCall ==
    (synth_returned /\ (invocation.clusters = <<>>
                        \/ invocation.total_comments = 0)) =>
        /\ synth_value = EMPTY_INSIGHT
        /\ calls = <<>>

\* clusters are there, the total is 0
C12_Witness ==
    /\ synth_returned
    /\ invocation.clusters # <<>>
    /\ invocation.total_comments = 0
    /\ synth_value = EMPTY_INSIGHT
    /\ calls = <<>>


---------------------------------------------------------------------------
(* Claims about _evenly_sample called on its own. *)

sampler_done ==
    /\ invocation.fn = "_evenly_sample"
    /\ invocation.outcome # PENDING

\* N and M of the call
sampler_N == Len(invocation.items)
sampler_M == invocation.max_samples

\* the 0-based index of every returned item in the input (the items of the
\* input are pairwise different)
sampled_positions ==
    LET items  == invocation.items
        result == invocation.outcome[2]
    IN  [i \in 1..Len(result) |->
            (CHOOSE k \in 1..Len(items) : items[k] = result[i]) - 1]

\* the indices are strictly increasing, inside the input, and start at 0
OrderedSpread(at, n) ==
    /\ \A i \in 1..Len(at) : at[i] >= 0 /\ at[i] <= n - 1
    /\ \A i \in 1..(Len(at) - 1) : at[i] < at[i + 1]
    /\ at # <<>> => at[1] = 0

(* C13: for every N >= 0 and M >= 0 the sampler returns, without raising,   *)
(* a list of exactly min(N, M) items.                                       *)
C13_SamplerReturnsMinItems ==
    sampler_done =>
        /\ invocation.outcome[1] = "return"
        /\ Len(invocation.outcome[2]) = Min(sampler_N, sampler_M)

(* C14 as stated: for 1 <= M < N the selected indices are strictly          *)
(* increasing, inside [0, N-1], start at 0, and the i-th (0-based) is       *)
(* floor(i*N/M).                                                            *)
C14_IndicesAreExactFloors ==
    (sampler_done /\ 1 <= sampler_M /\ sampler_M < sampler_N) =>
        /\ invocation.outcome[1] = "return"
        /\ Len(sampled_positions) = sampler_M
        /\ OrderedSpread(sampled_positions, sampler_N)
        /\ \A i \in 1..sampler_M :
              sampled_positions[i] = ((i - 1) * sampler_N) \div sampler_M

(* C14, amended: for 1 <= M < N the selected indices are strictly           *)
(* increasing, inside [0, N-1] and start at 0; the i-th is the integer part *)
(* of the cursor, the double N/M added i times to 0.0 (the loop that avoids *)
(* used indices never advances), which is floor(i*N/M), or one less than it *)
(* when i*N/M is a whole number.                                            *)
C14_IndicesFollowFloatCursor ==
    (sampler_done /\ 1 <= sampler_M /\ sampler_M < sampler_N) =>
        /\ invocation.outcome[1] = "return"
        /\ Len(sampled_positions) = sampler_M
        /\ OrderedSpread(sampled_positions, sampler_N)
        /\ \A i \in 1..sampler_M :
              LET exact == ((i - 1) * sampler_N) \div sampler_M
                  whole == ((i - 1) * sampler_N) % sampler_M = 0
                  cursor == sample_loop(sampler_N,
                                        float_div(sampler_N, sampler_M),
                                        i - 1)[1]
              IN  /\ sampled_positions[i] = float_int(cursor)
                  /\ \/ sampled_positions[i] = exact
                     \/ whole /\ sampled_positions[i] = exact - 1

\* N = 12, M = 9: the seventh index is 7, floor(6 * 12 / 9) is 8
C14_Witness ==
    /\ sampler_done
    /\ sampler_N = 12
    /\ sampler_M = 9
    /\ sampled_positions = <<0, 1, 2, 4, 5, 6, 7, 9, 10>>


---------------------------------------------------------------------------
(* Claims about the order of the clusters. *)

\* the heading lines of a prompt block, in the order they are rendered
headings_in(text) ==
    LET lines == splitlines(text)
    IN  Select(lines, {i \in 1..Len(lines) :
                          startswith(lines[i], <<"S", "u", "b", "-", "t", "o", "p", "i", "c", " ">>)})

(* C15: the cluster list cluster_summaries has returned is in order of      *)
(* non-increasing size, and the headings of the blocks that                 *)
(* build_cluster_prompt_block renders are those of the clusters, in the     *)
(* order of the list.                                                       *)
C15_LargestClusterFirst ==
    pc = "insight" =>
        /\ \A i \in 1..(Len(clusters) - 1) :
              clusters[i].size >= clusters[i + 1].size
        /\ headings_in(build_cluster_prompt_block(clusters))
              = [i \in 1..Len(clusters) |-> cluster_block_lines(clusters[i])[1]]

\* two clusters, the larger one is not the one of the first claim
C15_Witness ==
    /\ pc = "insight"
    /\ Len(clusters) = 2
    /\ clusters[1].size > clusters[2].size
    /\ clusters[2].summaries[1] = summaries[1]
    /\ clusters[1].cluster_id = 1


---------------------------------------------------------------------------
(* Claims about the theme with 40 positive comments. *)

\* cluster_summaries has returned from a KMeans call that succeeded, for the
\* theme with 40 positive comments
scenario_clustered ==
    /\ pc = "insight"
    /\ side = "positive"
    /\ Len(pos_contents) = 40
    /\ kmeans_called
    /\ ~kmeans_raised

cluster_sizes == [i \in 1..Len(clusters) |-> clusters[i].size]

(* C16 as stated: with 40 positive comments and a KMeans call that          *)
(* succeeded, the number of clusters is between 2 and MAX_CLUSTERS and the  *)
(* sizes of the clusters sum to 40.                                         *)
C16_FortyCommentsTwoToMaxClusters ==
    scenario_clustered =>
        /\ Len(clusters) >= 2
        /\ Len(clusters) <= MAX_CLUSTERS
        /\ SumSeq(cluster_sizes) = 40

(* C16, amended: with 40 positive comments and a KMeans call that           *)
(* succeeded, the number of clusters is between 1 and MAX_CLUSTERS, no      *)
(* cluster is empty, and the sizes sum to the number of claims, which is at *)
(* least 40.                                                                *)
C16_FortyCommentsOneToMaxClusters ==
    scenario_clustered =>
        /\ Len(clusters) >= 1
        /\ Len(clusters) <= MAX_CLUSTERS
        /\ \A i \in 1..Len(clusters) : clusters[i].size >= 1
        /\ SumSeq(cluster_sizes) = Len(summaries)
        /\ Len(summaries) >= 40

\* the last comment gave three claims and KMeans gave every claim one label
C16_Witness ==
    /\ scenario_clustered
    /\ Len(summaries) = 42
    /\ Len(clusters) = 1
    /\ clusters[1].size = 42


---------------------------------------------------------------------------
(* Claims about the number of claims per comment. *)

(* C17: whatever the generation call answers, one iteration of the loop of  *)
(* summarize_comments adds at least 1 and at most 2 claims for its comment. *)
C17_OneOrTwoClaimsPerComment ==
    [][ pc = "summarize" =>
            /\ Len(summaries') >= Len(summaries) + 1
            /\ Len(summaries') <= Len(summaries) + 2 ]_vars


---------------------------------------------------------------------------
(* Claims about what is read from the reply of the insight call. *)

\* the generation call was made and answered with a text
synth_answered ==
    /\ synth_returned
    /\ calls # <<>>
    /\ synth_reply[1] = "content"
    /\ synth_reply[2] # None

(* C18: when the reply is a JSON object with text before it or after it     *)
(* (prose, or a second brace-delimited span), the function returns what it  *)
(* returns for the object alone: the summary and the recommendations of     *)
(* the first object.                                                        *)
C18_FirstObjectIsExtracted ==
    synth_answered =>
        \A pre \in Prefixes, obj \in JsonObjects, suf \in Suffixes :
            synth_reply[2] = pre \o obj \o suf =>
                synth_value = insight_of_reply(<<"content", obj>>)

(* C19: when the call answered and the text has no brace-delimited span, or *)
(* the span is not JSON, the function returns the first 300 characters of   *)
(* the text as the summary and no recommendations.                          *)
C19_NoJsonGivesRawText ==
    synth_answered =>
        LET text == strip(synth_reply[2])
            span == brace_search(text)
        IN  (span = None \/ json_loads(span)[1] = "error") =>
                synth_value = [ summary |-> Take(text, 300),
                                recommendations |-> <<>> ]

(* C20: every element of the returned list of recommendations is a string   *)
(* that is not empty after trimming.                                        *)
C20_RecommendationsAreNonEmpty ==
    synth_returned =>
        \A i \in 1..Len(synth_value.recommendations) :
            strip(synth_value.recommendations[i]) # <<>>

---------------------------------------------------------------------------
(* The presentation lookup and the single-stage pipeline. *)

\* a request to /theme-insights has been answered with status 200
lookup_answered ==
    invocation.fn = "get_theme_insights" /\ invocation.outcome[1] = 200

lookup_key == insight_key(invocation.theme_type, invocation.theme_name)

\* the record a table (a list of <<key, record>>) holds under key
record_of(table, key) ==
    table[CHOOSE i \in 1..Len(table) : table[i][1] = key][2]

(* C21: a lookup of a key that the table does not hold is answered with    *)
(* the all-empty record: both summaries "", both recommendation lists [].  *)
C21_AbsentKeyGivesEmptyRecord ==
    (lookup_answered /\ lookup_key \notin Range(KeysOf(_theme_insights_cache)))
        => invocation.outcome[2] = insights_value(EMPTY_INSIGHTS)

\* the keys of the themes of this run whose record was stored, in loop order
written_keys ==
    Select(List([i \in 1..Len(outcomes) |-> theme_key(i)]),
           {i \in 1..Len(outcomes) : outcomes[i] = "written"})

(* C22: when a run has ended, the output file holds exactly the table built *)
(* during that run: no key of the table an earlier run left is in it, also  *)
(* when only some themes were processed, and every key of the table was     *)
(* assigned once, by the one theme of the run it belongs to.                *)
C22_TableIsThisRunsMapping ==
    /\ dict_keys(all_insights) = written_keys
    /\ \A i, j \in 1..Len(all_insights) :
          all_insights[i][1] = all_insights[j][1] => i = j
    /\ pc = "done" =>
          /\ files[ADVANCED_FILE] = dump_table(all_insights)
          /\ persisted_keys = written_keys
          /\ Range(persisted_keys) \cap Range(dict_keys(OLD_TABLE)) = {}

\* a run limited to one theme has replaced the table of the earlier run
C22_Witness ==
    /\ pc = "done"
    /\ Len(themes_to_process) = 1
    /\ outcomes = << "written" >>
    /\ persisted_keys = << theme_key(1) >>
    /\ json_loads(dump_table(OLD_TABLE)) # json_loads(files[ADVANCED_FILE])

---------------------------------------------------------------------------
(* keywords_from_texts. *)

keywords_returned ==
    invocation.fn = "keywords_from_texts" /\ invocation.outcome # PENDING

keywords == invocation.outcome[2]

\* every run of letters of the lowered texts, in reading order
letter_runs ==
    Flatten(List([i \in 1..Len(invocation.texts) |->
                    TOKEN_PATTERN_findall(lower(invocation.texts[i]))]))

frequency(token) == Count(letter_runs, token)

first_seen(token) ==
    CHOOSE i \in 1..Len(letter_runs) :
        /\ letter_runs[i] = token
        /\ \A j \in 1..(i - 1) : letter_runs[j] # token

(* C24: for every list of texts and every K >= 0 keywords_from_texts        *)
(* returns at most K tokens, none a stop word, none of less than 3 letters, *)
(* in order of non-increasing frequency, tokens of equal frequency in the   *)
(* order they are first met in the texts.                                   *)
C24_KeywordsAreTopFrequent ==
    keywords_returned =>
        /\ Len(keywords) <= invocation.top_k
        /\ \A i \in 1..Len(keywords) :
              /\ keywords[i] \notin STOP_WORDS
              /\ Len(keywords[i]) >= 3
              /\ keywords[i] \in Range(letter_runs)
        /\ \A i, j \in 1..Len(keywords) :
              i < j =>
                 \/ frequency(keywords[i]) > frequency(keywords[j])
                 \/ /\ frequency(keywords[i]) = frequency(keywords[j])
                    /\ first_seen(keywords[i]) < first_seen(keywords[j])

\* "pay" twice, "late" and "shift" once each, "the" twice, top_k = 2
C24_Witness ==
    /\ keywords_returned
    /\ invocation.top_k = 2
    /\ invocation.texts = << <<"l", "a", "t", "e", " ", "s", "h", "i", "f", "t", ",", " ", "T", "H", "E", " ", "r", "t">>, <<"P", "a", "y", " ", "t", "h", "e", " ", "p", "a", "y">> >>
    /\ keywords = << <<"p", "a", "y">>, <<"l", "a", "t", "e">> >>

---------------------------------------------------------------------------
(* The choice of K. *)

k_chosen == invocation.fn = "choose_k" /\ invocation.outcome # PENDING

(* C25: for N >= 12 claims the number of clusters asked of KMeans is        *)
(* max(2, min(MAX_CLUSTERS, N div MIN_POINTS_PER_CLUSTER)); it lies between *)
(* 2 and 5 and is at most N, so the two adjustments that follow leave it as *)
(* it is.                                                                   *)
C25_RequestedKIsClamped ==
    k_chosen =>
        /\ invocation.outcome[2] =
              Max(2, Min(MAX_CLUSTERS,
                         invocation.n \div MIN_POINTS_PER_CLUSTER))
        /\ 2 <= invocation.outcome[2]
        /\ invocation.outcome[2] <= 5
        /\ invocation.outcome[2] <= invocation.n

\* 108 claims: 108 div 18 = 6 is cut to MAX_CLUSTERS
C25_Witness ==
    /\ k_chosen
    /\ invocation.n = 108
    /\ invocation.outcome[2] = 5

---------------------------------------------------------------------------
(* The trace of capability calls. *)

\* the calls to the chat and embedding services for one sentiment of the
\* current theme, in the order they were issued
external_calls(label) ==
    SelectSeq(calls, LAMBDA c : c.side = label /\ c.kind # "kmeans")

\* the comments summarize_comments takes up for one sentiment
sampled_count(label) ==
    Len(_evenly_sample(IF label = "positive" THEN pos_contents
                       ELSE neg_contents, MAX_SUMMARIES_PER_THEME))

summary_count(trace) ==
    Cardinality({i \in 1..Len(trace) : trace[i].kind = "summary"})

\* m summary calls for the comments 1..m, then "embed", then "insight";
\* nothing follows the summary calls before all n comments had theirs
StagedTrace(trace, m, n) ==
    /\ m <= n
    /\ \A i \in 1..m : trace[i].kind = "summary" /\ trace[i].arg = i
    /\ [i \in 1..(Len(trace) - m) |-> trace[m + i].kind]
          \in { <<>>, <<"embed">>, <<"embed", "insight">> }
    /\ Len(trace) > m => m = n

BatchTraces ==
    /\ \A label \in {"positive", "negative"} :
          StagedTrace(external_calls(label),
                      summary_count(external_calls(label)),
                      sampled_count(label))
    /\ \A i, j \in 1..Len(calls) :
          (i < j /\ calls[i].side = "negative") => calls[j].side = "negative"
    /\ external_calls("negative") # <<>> =>
          \/ pos_contents = <<>>
          \/ Len(external_calls("positive")) = sampled_count("positive") + 2

\* within a theme the trace only grows by one call at its end; it is
\* dropped when main goes on to the next theme, and main never goes back
TraceGrows ==
    /\ idx' >= idx
    /\ calls' # calls =>
          \/ calls' = <<>> /\ idx' = idx + 1
          \/ /\ idx' = idx
             /\ Len(calls') = Len(calls) + 1
             /\ SubSeq(calls', 1, Len(calls)) = calls
    /\ (pc = "embed" /\ pc' = "loop") => idx' = idx + 1

(* C26: for each theme and sentiment the calls go out in stages: one        *)
(* summary call per sampled comment, in the order of the comments, then at  *)
(* most one embedding call, then at most one insight call; no stage starts  *)
(* before the one before it is through, and a call that failed is not made  *)
(* again.                                                                   *)
C26_CallsGoOutInStages == [](BatchTraces) /\ [][TraceGrows]_vars

\* two positive comments: the first summary call failed, the second
\* answered, then one embedding call and one insight call
C26_Witness ==
    /\ pc = "side_done"
    /\ side = "positive"
    /\ Len(calls) = 4
    /\ [i \in 1..4 |-> calls[i].kind] = << "summary", "summary", "embed", "insight" >>
    /\ ~calls[1].ok
    /\ calls[2].ok

---------------------------------------------------------------------------
(* Lookups after a run. *)

\* a lookup answered after the pipeline has written its table
lookup_after_run ==
    /\ lookup_answered
    /\ n_writes = 1
    /\ invocation.writes = n_writes
    /\ lookup_key \in Range(dict_keys(all_insights))

(* C27: once a run of the single-stage pipeline has replaced                *)
(* theme_insights.json, every later lookup of a key of the new table is     *)
(* answered with the record of that run, also by a server that had looked   *)
(* the table up before the run.                                             *)
C27_LookupAfterRunIsFresh ==
    (lookup_after_run /\ pc = "basic_done")
        => invocation.outcome[2] =
              insights_value(record_of(all_insights, lookup_key))

(* C28: a record the three-stage pipeline has written under a key is the    *)
(* record a later lookup of that key is answered with.                      *)
C28_LookupReturnsAdvancedRecord ==
    (lookup_after_run /\ pc = "done")
        => invocation.outcome[2] =
              insights_value(record_of(all_insights, lookup_key))

(* C29: in the single-stage generate_insights_for_theme a sentiment whose   *)
(* generation call failed is left with the summary "" and no                *)
(* recommendations, nothing is raised, and the other sentiment is still     *)
(* processed.                                                               *)
C29_FailedCallLeavesSentimentEmpty ==
    pc \in {"basic_negative", "basic_loop", "basic_done"} =>
        \A i \in 1..Len(calls) :
            ~calls[i].ok =>
                side_fields(insights, calls[i].side) = << <<>>, <<>> >>

---------------------------------------------------------------------------
(* Vectors and claims of different number. *)

(* C30: when the list of vectors, and with it the list of labels, is not as *)
(* long as the list of claims, cluster_summaries still returns clusters     *)
(* that hold every claim once: the sizes sum to the number of claims.       *)
C30_MismatchStillPartitions ==
    (pc = "insight" /\ Len(embeddings) # Len(summaries)) =>
        /\ SumSeq(List([c \in 1..Len(clusters) |-> Len(clusters[c].summaries)]))
              = Len(summaries)
        /\ \A i \in 1..Len(summaries) :
              \E c \in 1..Len(clusters) :
                  summaries[i] \in Range(clusters[c].summaries)

---------------------------------------------------------------------------
(* Two runs with the answers of the services held fixed. *)

second_run_done == stub.run = 2 /\ pc = "done"

(* C23: when the pipeline is run again on the same store, with the same     *)
(* command line, and every service answers a request as it answered it in   *)
(* the first run (the labels KMeans returns included), the second run       *)
(* writes the same output file as the first.                                *)
C23_SecondRunWritesSameTable ==
    second_run_done => files[ADVANCED_FILE] = stub.first

\* both runs took the theme with MaxUnitClaims + 1 claims through a KMeans
\* call that returned labels, and wrote a record with a summary
C23_Witness ==
    /\ second_run_done
    /\ \E i \in 1..Len(stub.pairs) :
          stub.pairs[i][1] = "kmeans" /\ stub.pairs[i][3][1] = "labels"
    /\ outcomes = << "written" >>
    /\ all_insights[1][2].positive_summary # <<>>
    /\ files[ADVANCED_FILE] # dump_table(OLD_TABLE)

=============================================================================
